---------------------------- MODULE MCSquareMultiply ----------------------------
\* Two ends with all pairs of secrets of a few bits, and a prime, an odd and an even modulus.
EXTENDS SquareMultiply

CONSTANTS client, server

MCEnd == {client, server}
MCModulus == {23, 15, 12}

=================================================================================
