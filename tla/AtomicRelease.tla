----------------------------- MODULE AtomicRelease -----------------------------
(***************************************************************************)
(* What the directory of a release promises to somebody who takes an asset *)
(* from it at any moment and checks its checksum.  Packages are made one   *)
(* after the other under the same names.  An asset of a package comes up   *)
(* at most once, in place of nothing and beside nothing of another         *)
(* package; what is taken away comes back only with a later package.       *)
(* NativePackage implements this specification.                            *)
(***************************************************************************)
EXTENDS Naturals

CONSTANTS Names, \* the names of the assets
          None   \* no asset that its checksum confirms

VARIABLES
  made,    \* packages begun so far: the newest one's number
  pending, \* assets of the newest package that may still come up
  offered  \* the package of the asset that its checksum confirms, per name

release == <<made, pending, offered>>

Init == made = 0 /\ pending = {} /\ offered = [a \in Names |-> None]

\* The assets of the package before stay until they are overwritten.
Begin ==
  /\ pending = {}
  /\ made' = made + 1 /\ pending' = Names
  /\ UNCHANGED offered

Withdraw ==
  /\ \E gone \in SUBSET Names :
       offered' = [a \in Names |-> IF a \in gone THEN None ELSE offered[a]]
  /\ UNCHANGED <<made, pending>>

Publish ==
  /\ \E a \in pending :
       /\ offered[a] = None
       /\ \A b \in Names : offered[b] \in {None, made}
       /\ offered' = [offered EXCEPT ![a] = made]
       /\ pending' = pending \ {a}
  /\ UNCHANGED made

Abandon == pending' = {} /\ UNCHANGED <<made, offered>>

Next == Begin \/ Withdraw \/ Publish \/ Abandon

Spec == Init /\ [][Next]_release
=============================================================================
