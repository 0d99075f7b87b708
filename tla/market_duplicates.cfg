CONSTANTS
    Users = {owner, alice}
    Owner = owner
    Requests = {q1, q2}
    Subscriptions = {s1, s2}
    Nobody = Nobody
SPECIFICATION Spec
INVARIANT ActiveUnique
CHECK_DEADLOCK FALSE
