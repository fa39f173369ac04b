------------------------------ MODULE EipAdmission -----------------------------
(***************************************************************************)
(* The validating webhook of Eips (api/v1alpha2/eip_types.go): every       *)
(* creation and update is judged against a list of the Eips read from a    *)
(* cache, and stored by the API server afterwards.                         *)
(***************************************************************************)
EXTENDS EipAddress

CONSTANTS Names, Eips, IPs, Requests, Nil,   \* Eips: what users may submit, IPs: may ask for
          MaxStores           \* bound: number of accepted writes and deletions

VARIABLES eips,    \* the stored Eips
          cache,   \* the webhook's view of them
          req,     \* req[r]: an admitted write on its way to the store
          missed,  \* ghost: missed[e]: the Eips that changed while e's last judged write was on its way
          stores

vars == <<eips, cache, req, missed, stores>>

\* default: the annotation; bare: protocol layer2 or vip without an interface.
Eip == [address: Text, default: {"absent", "true", "True"}, bare: BOOLEAN]

ConstantsOK == MaxInt \in Nat \ {0} /\ Eips \subseteq Eip /\ IPs \subseteq IP /\ Nil \notin Eips

NoReq == [pc |-> "none"]

IsDefault(eip) == eip.default = "true"

\* HasOpenELBDefaultEipAnnotation lowers the case first.
HasDefault(eip) == eip.default \in {"true", "True"}

------------------------------------------------------------------------------
(* The webhook.                                                            *)

validateDefault(e, eip, list) ==
    HasDefault(eip) => \A f \in Names \ {e} : list[f] # Nil => ~HasDefault(list[f])

validateOverlap(e, eip, list) ==
    \A f \in Names \ {e} : list[f] # Nil => ~IsOverlap(eip.address, list[f].address)

ValidateCreate(e, eip, list) ==
    /\ GetSize(eip.address).ok /\ ~eip.bare
    /\ validateOverlap(e, eip, list) /\ validateDefault(e, eip, list)

\* Mutant of ValidateUpdate: changed annotations are not judged.
ValidateUpdate_NoDefault(e, eip, old, list) == eip.address = old.address /\ ~eip.bare

ValidateUpdate(e, eip, old, list) ==
    /\ eip.default # old.default => validateDefault(e, eip, list)
    /\ eip.address = old.address /\ ~eip.bare

Judged(eip, old) == old = Nil \/ eip.default # old.default

------------------------------------------------------------------------------
(* The API server.                                                         *)

Admit(r, e, eip) ==
    /\ req[r] = NoReq /\ stores < MaxStores
    /\ IF eips[e] = Nil THEN ValidateCreate(e, eip, cache) ELSE ValidateUpdate(e, eip, eips[e], cache)
    /\ req' = [req EXCEPT ![r] = [pc |-> "store", name |-> e, eip |-> eip, old |-> eips[e], list |-> cache]]
    /\ UNCHANGED <<eips, cache, missed, stores>>

\* The write takes place if the Eip is still what it was.
Store(r) ==
    /\ req[r].pc = "store" /\ stores < MaxStores
    /\ LET e == req[r].name
           since == {f \in Names \ {e} : eips[f] # Nil /\ eips[f] # req[r].list[f]}
       IN /\ eips[e] = req[r].old
          /\ eips' = [eips EXCEPT ![e] = req[r].eip]
          /\ missed' = IF Judged(req[r].eip, req[r].old)
                       THEN [missed EXCEPT ![e] = @ \cup since] ELSE missed
    /\ req' = [req EXCEPT ![r] = NoReq] /\ stores' = stores + 1
    /\ UNCHANGED cache

Conflict(r) ==
    /\ req[r].pc = "store" /\ eips[req[r].name] # req[r].old
    /\ req' = [req EXCEPT ![r] = NoReq]
    /\ UNCHANGED <<eips, cache, missed, stores>>

\* ValidateDelete admits every deletion.
Delete(e) ==
    /\ eips[e] # Nil /\ stores < MaxStores /\ stores' = stores + 1
    /\ eips' = [eips EXCEPT ![e] = Nil]
    /\ missed' = [f \in Names |-> IF f = e THEN {} ELSE missed[f] \ {e}]
    /\ UNCHANGED <<cache, req>>

Sync == cache' = eips /\ UNCHANGED <<eips, req, missed, stores>>

------------------------------------------------------------------------------
Init ==
    /\ eips = [e \in Names |-> Nil] /\ cache = eips
    /\ req = [r \in Requests |-> NoReq] /\ missed = [e \in Names |-> {}] /\ stores = 0

Next ==
    \/ \E r \in Requests : \/ \E e \in Names, eip \in Eips : Admit(r, e, eip)
                           \/ Store(r) \/ Conflict(r)
    \/ \E e \in Names : Delete(e)
    \/ Sync

Spec == Init /\ [][Next]_vars

------------------------------------------------------------------------------
(* Properties.                                                             *)

\* validateOverlap: two stored Eips have no address in common, unless one of them was
\* written while the other was on its way.  Pools too large for int64 are left out.
Disjoint ==
    \A e, f \in Names :
        /\ e # f /\ eips[e] # Nil /\ eips[f] # Nil
        /\ Fits(eips[e].address) /\ Fits(eips[f].address)
        /\ Intersect(eips[e].address, eips[f].address)
        => e \in missed[f] \/ f \in missed[e]

\* validateDefault, IsDefault: at most one Eip is the default that getDefaultEIP takes,
\* unless one was written while the other was on its way.
OneDefault ==
    \A e, f \in Names :
        /\ e # f /\ eips[e] # Nil /\ eips[f] # Nil
        /\ IsDefault(eips[e]) /\ IsDefault(eips[f])
        => e \in missed[f] \/ f \in missed[e]

\* GetSize, Contains, IPToOrdinal, ParseRange: for a stored Eip the controller and the
\* speaker agree on the addresses of the pool, and IPToOrdinal counts them from the first
\* one, for the addresses of its family at most MaxInt away.
PoolsAgree ==
    \A e \in Names : eips[e] # Nil /\ Fits(eips[e].address) =>
        LET t == eips[e].address IN
        \A ip \in IPs :
            ip.v4 = t.first.v4 /\ Int64(ip.n - GetSize(t).base) = ip.n - GetSize(t).base =>
                /\ Contains(t, ip) <=> RangeContains(t, ip)
                /\ Contains(t, ip) => GetSize(t).base + IPToOrdinal(t, ip) = ip.n
                /\ ~Contains(t, ip) => IPToOrdinal(t, ip) = -1
===============================================================================
