---------------------------- MODULE MCEipAdmission -----------------------------
(***************************************************************************)
(* An instance of EipAdmission for TLC, with machine integers of four bits *)
(* and two requests at a time.                                             *)
(***************************************************************************)
EXTENDS EipAdmission

V6(n) == [v4 |-> FALSE, n |-> n]

Pool(form, first, last, hosts, default) ==
    [address |-> [form |-> form, first |-> V6(first), last |-> V6(last), hosts |-> hosts],
     default |-> default, bare |-> FALSE]

\* A network, the largest range, which ends just below it, and the last address of that;
\* two others run backwards or lack an interface.
Submitted == {Pool("cidr", 9, 9, 4, "true"), Pool("range", 1, 7, 1, "absent"), Pool("range", 1, 7, 1, "true"),
              Pool("ip", 7, 7, 1, "True"), Pool("range", 7, 6, 1, "absent"),
              [Pool("ip", 13, 13, 1, "absent") EXCEPT !.bare = TRUE]}

\* Ends of the pools and their neighbours.
AskedFor == {V6(n) : n \in {0, 1, 7, 8, 12}}

ASSUME ConstantsOK
===============================================================================
