---------------------------- MODULE MCUIBackend ----------------------------
(* Instances of UIBackend for TLC. *)
EXTENDS UIBackend

CONSTANTS u1, u2, n1, n2

\* Each user sees one namespace; the backend sees both.
MCAccess == [i \in Identities |-> CASE i = u1 -> {n1}
                                   [] i = u2 -> {n2}
                                   [] OTHER  -> {n1, n2}]

=============================================================================
