-------------------------- MODULE ConsentLifecycle --------------------------
(***************************************************************************)
(* What the registry promises the parties of an agreement, without         *)
(* signature arrays, digests, indexes or stored records: an agreement is   *)
(* recorded once every account it names has signed it; its end and its     *)
(* document change only to ones they all signed as well, still ahead at    *)
(* that moment; any of them may withdraw, once and for good.               *)
(* ConsentRegistry implements this (ConsentRegistry!ImplementsLifecycle).  *)
(***************************************************************************)
EXTENDS Naturals, Sequences

CONSTANTS
  Address,  \* the accounts
  Terms     \* the agreements that may be put to signature

VARIABLES
  now,
  signatures,  \* who has signed what
  agreed,      \* the recorded agreements, as first signed -> as they read now
  withdrawn    \* the recorded agreements one of the parties has withdrawn from

Names(t, p) == \E i \in DOMAIN t.parties : t.parties[i] = p

SignedByAll(t) ==
  \A p \in Address : Names(t, p) => [signer |-> p, digest |-> t] \in signatures

Init ==
  /\ signatures = {}
  /\ agreed = << >>
  /\ withdrawn = {}

TimePasses ==
  /\ now' > now
  /\ UNCHANGED <<signatures, agreed, withdrawn>>

Sign(p, t) ==
  /\ Names(t, p)
  /\ signatures' = signatures \cup {[signer |-> p, digest |-> t]}
  /\ UNCHANGED <<now, agreed, withdrawn>>

Record(t) ==
  /\ t \notin DOMAIN agreed
  /\ t.parties # << >>
  /\ SignedByAll(t)
  /\ agreed' = [id \in DOMAIN agreed \cup {t} |-> IF id = t THEN t ELSE agreed[id]]
  /\ UNCHANGED <<now, signatures, withdrawn>>

\* The parties, the scopes and the start cannot be amended; a withdrawal stays.
Amend(id, until, uri) ==
  LET amended == [agreed[id] EXCEPT !.validUntil = until, !.uri = uri] IN
  /\ until > now
  /\ until > agreed[id].validFrom
  /\ SignedByAll(amended)
  /\ agreed' = [agreed EXCEPT ![id] = amended]
  /\ UNCHANGED <<now, signatures, withdrawn>>

Withdraw(p, id) ==
  /\ Names(agreed[id], p)
  /\ id \notin withdrawn
  /\ withdrawn' = withdrawn \cup {id}
  /\ UNCHANGED <<now, signatures, agreed>>

Next ==
  \/ TimePasses
  \/ \E p \in Address : \E t \in Terms : Sign(p, t)
  \/ \E t \in Terms : Record(t)
  \/ \E id \in DOMAIN agreed : \E until \in {t.validUntil : t \in Terms} :
       \E uri \in {t.uri : t \in Terms} : Amend(id, until, uri)
  \/ \E p \in Address : \E id \in DOMAIN agreed : Withdraw(p, id)

Spec == Init /\ [][Next]_<<now, signatures, agreed, withdrawn>>
=============================================================================
