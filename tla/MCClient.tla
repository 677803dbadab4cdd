-------------------------------- MODULE MCClient --------------------------------
\* A user and another, who asks and answers at any time.
EXTENDS Client

CONSTANT bob

=================================================================================
