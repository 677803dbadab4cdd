---------------------------- MODULE MCCertAuthority ----------------------------
\* A table with one place; the CA may be started twice.  A user, and with him a second run of
\* his, another user, one whose name is cut to his, or one without a common name.
EXTENDS CertAuthority

CONSTANTS r1, r2, a, b, long, empty

MCEntering == {[r \in Run |-> IF r = r1 THEN a ELSE n] : n \in Name \ {ServerName}}
MCCut == [n \in Name |-> IF n = long THEN a ELSE n]
================================================================================
