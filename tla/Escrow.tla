------------------------------- MODULE Escrow -------------------------------
(***************************************************************************)
(* What every FlowGuard covenant that holds money promises, whatever its   *)
(* release rule: the money it was funded with is either still in reserve,  *)
(* released to somebody, or spent on miner fees of a bounded size; nothing *)
(* is released while the escrow is held (paused) except by closing it; and *)
(* a closed escrow never moves again.  The covenant modules implement this *)
(* specification under a refinement mapping.                               *)
(***************************************************************************)
EXTENDS Integers

CONSTANTS Deposits,  \* the values the escrow may be funded with
          MaxFee     \* the largest miner fee one step may take from it

VARIABLES reserve,   \* value still locked in the contract
          released,  \* value paid to recipients so far
          burned,    \* value spent on miner fees so far
          phase      \* "open", "held" or "closed"

evars == <<reserve, released, burned, phase>>

Init == /\ reserve \in Deposits
        /\ released = 0
        /\ burned = 0
        /\ phase = "open"

\* One transaction takes `fee` for the miner and pays out `amount`.
Move(amount, fee) == /\ amount + fee <= reserve
                     /\ reserve' = reserve - amount - fee
                     /\ released' = released + amount
                     /\ burned' = burned + fee

Release == /\ phase = "open"
           /\ phase' = phase
           /\ \E amount \in 0 .. reserve, fee \in 0 .. MaxFee : Move(amount, fee)

Hold == /\ phase = "open"
        /\ phase' = "held"
        /\ \E fee \in 0 .. MaxFee : Move(0, fee)

Resume == /\ phase = "held"
          /\ phase' = "open"
          /\ \E fee \in 0 .. MaxFee : Move(0, fee)

Close == /\ phase \in {"open", "held"}
         /\ phase' = "closed"
         /\ \E amount \in 0 .. reserve, fee \in 0 .. MaxFee : Move(amount, fee)

Next == Release \/ Hold \/ Resume \/ Close

Spec == Init /\ [][Next]_evars
=============================================================================
