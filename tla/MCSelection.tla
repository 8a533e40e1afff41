----------------------------- MODULE MCSelection -----------------------------
(* Provider selection: concurrency leases, a shared reservation of an        *)
(* alternate provider, and the exports that hold snapshots of captured       *)
(* traffic. The components share no state: `part' picks the one that runs    *)
(* and the others stay in one initial state.                                 *)
EXTENDS ProviderLeases, ProviderReservation, CaptureExport, TLC

SelectionSymmetry == Permutations(Leases) \cup Permutations(Callers)

VARIABLE part    \* the component that runs

SelectionInit ==
  /\ part \in {"leases", "reservation", "export"}
  /\ Init /\ ReservationInit /\ ExportInit

OnlyLeases == part = "leases" /\ UNCHANGED <<part, reservationVars, exportVars>>
OnlyReservation == part = "reservation" /\ UNCHANGED <<part, vars, exportVars>>
OnlyExport == part = "export" /\ UNCHANGED <<part, vars, reservationVars>>

SelectionNext ==
  \/ OnlyLeases /\ Next
  \/ OnlyReservation /\ ReservationNext
  \/ OnlyExport /\ ExportNext

selectionVars == <<part, vars, reservationVars, exportVars>>

SelectionSpec == SelectionInit /\ [][SelectionNext]_selectionVars
=============================================================================
