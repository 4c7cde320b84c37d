------------------------------ MODULE Authority ------------------------------
(***************************************************************************)
(* What the identity issuer promises whoever trusts its assertions, without *)
(* handlers, registry, directories or clock: assertions are only ever      *)
(* added.  One begins a session, or is cut from one of the same era within *)
(* what that one was entitled to and for the process it was issued to.     *)
(* An era is one run of the issuer with the signing key it loaded.         *)
(***************************************************************************)
EXTENDS Integers

CONSTANTS
  Key,          \* signing keys the operator may configure
  MaxLifetime,  \* the contract's cap on exp - iat
  Delegable     \* the roles that may be delegated

VARIABLES
  issued,       \* every assertion a client could have read
  run, key      \* the era

vars == <<issued, run, key>>

\* Nothing was issued before: a new assertion's id is no one's id or session.
Fresh(a) == \A b \in issued : a.jti # b.jti /\ a.jti # b.sid

OfThisEra(a) == a.run = run /\ a.key = key

Lives(a) == a.iat < a.exp /\ a.exp <= a.iat + MaxLifetime

Begin(a) == a.sid = a.jti /\ a.parent = a.jti

Cut(a, p) ==
  /\ a.parent = p.jti /\ a.sid = p.sid
  /\ OfThisEra(p)
  /\ a.bound = p.bound
  /\ a.roles \subseteq p.roles \cap Delegable
  /\ a.exp <= p.exp

Issue ==
  \E a \in issued' :
    /\ Fresh(a) /\ OfThisEra(a) /\ Lives(a)
    /\ Begin(a) \/ \E p \in issued : Cut(a, p)
    /\ issued' = issued \cup {a}
    /\ UNCHANGED <<run, key>>

\* The issuer stops, or crashes, and starts again, perhaps with another key.
NewEra == run' = run + 1 /\ key' \in Key /\ UNCHANGED issued

Init == issued = {} /\ run = 0 /\ key \in Key

Next == Issue \/ NewEra

Spec == Init /\ [][Next]_vars
=============================================================================
