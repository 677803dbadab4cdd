SPECIFICATION Spec
\* Both ends stop when they have computed the secret.
CHECK_DEADLOCK FALSE
CONSTANTS
    client = client
    server = server
    End <- MCEnd
    G = 2
    Modulus <- MCModulus
    Width = 4
INVARIANTS BaseIsPower SecretsAgree
