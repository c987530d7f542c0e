--------------------------- MODULE FrontEndProofs ---------------------------
(***************************************************************************)
(* Proofs about FrontEnd, for any set of values of the user's settings.    *)
(*                                                                         *)
(* That the settings are back after a session is not inductive: it needs   *)
(* that during one they are in savedNetworkSettings, as the user chose     *)
(* them, which leaveSession() relies on.                                   *)
(***************************************************************************)
EXTENDS FrontEnd, TLAPS

\* The inductive invariant: what the user chose is saved for as long as a session lasts.
Inv ==
  /\ TypeOK
  /\ LocalSettingsKept
  /\ NothingLeftOpen
  /\ OnSupportedGame
  /\ managed => saved = chosen

\* The program starts with no session and the user's settings.
LEMMA InitInv == Init => Inv
<1> SUFFICES ASSUME Init PROVE Inv
  OBVIOUS
<1>1. paused \in BOOLEAN /\ settings \in Choices
  BY DEF Init
<1>2. chosen = [settings |-> settings, paused |-> paused] /\ saved = chosen
  BY DEF Init
<1>3. chosen \in [settings : Choices, paused : BOOLEAN]
  BY <1>1, <1>2
<1>4. TypeOK
  BY <1>1, <1>2, <1>3 DEF Init, TypeOK
<1>5. NothingLeftOpen /\ OnSupportedGame
  BY DEF Init, NothingLeftOpen, OnSupportedGame
<1> QED
  BY <1>2, <1>4, <1>5 DEF Inv, LocalSettingsKept

\* Every way out of a session goes through leaveSession(), which keeps the invariant on
\* whatever game is loaded afterwards.
LEMMA LeavingKeepsInv ==
  ASSUME Inv, leaveSession, rom' \in {"none", "supported", "other"},
         managed \/ rom' = rom \/ client = "detached"
  PROVE  Inv'
<1>1. CASE managed
  BY <1>1 DEF Inv, leaveSession, TypeOK, LocalSettingsKept, NothingLeftOpen, OnSupportedGame
<1>2. CASE ~managed
  BY <1>2 DEF Inv, leaveSession, local, remote, TypeOK, LocalSettingsKept, NothingLeftOpen,
              OnSupportedGame
<1> QED BY <1>1, <1>2

\* Every handler of the window and every step of the other threads keeps the invariant.
LEMMA NextInv == Inv /\ [Next]_vars => Inv'
<1> SUFFICES ASSUME Inv, [Next]_vars PROVE Inv'
  OBVIOUS
<1>t. TypeOK BY DEF Inv
<1> USE DEF local, remote
<1>1. CASE BeginFails
  BY <1>1 DEF BeginFails, Inv, TypeOK, LocalSettingsKept, NothingLeftOpen, OnSupportedGame
<1>2. ASSUME NEW k \in {"host", "join"}, Begin(k) PROVE Inv'
  <2>1. saved' \in [settings : Choices, paused : BOOLEAN] /\ saved' = chosen'
    BY <1>2 DEF Begin, activateSession, Inv, TypeOK, LocalSettingsKept
  <2> QED
    BY <1>2, <2>1
    DEF Begin, activateSession, Inv, TypeOK, LocalSettingsKept, NothingLeftOpen, OnSupportedGame
<1>3. CASE BeginRefused
  <2>1. saved' \in [settings : Choices, paused : BOOLEAN]
    BY <1>3 DEF BeginRefused, Inv, TypeOK, LocalSettingsKept
  <2> QED
    BY <1>3, <2>1
    DEF BeginRefused, Inv, TypeOK, LocalSettingsKept, NothingLeftOpen, OnSupportedGame
<1>4. CASE Leave
  BY <1>4, <1>t, LeavingKeepsInv DEF Leave, TypeOK
<1>5. CASE TakeConnection
  BY <1>5
  DEF TakeConnection, Inv, TypeOK, LocalSettingsKept, NothingLeftOpen, OnSupportedGame
<1>6. CASE AttachFails
  BY <1>6, <1>t, LeavingKeepsInv DEF AttachFails, TypeOK
<1>7. CASE Refresh
  <2>1. CASE client = "disconnected" \/ session = "error"
    BY <1>7, <2>1, <1>t, LeavingKeepsInv DEF Refresh, TypeOK
  <2>2. CASE ~(client = "disconnected" \/ session = "error")
    BY <1>7, <2>2
    DEF Refresh, Inv, TypeOK, LocalSettingsKept, NothingLeftOpen, OnSupportedGame
  <2> QED BY <2>1, <2>2
<1>8. ASSUME NEW v \in Choices, NEW p \in BOOLEAN, UserSets(v, p) PROVE Inv'
  BY <1>8 DEF UserSets, Inv, TypeOK, LocalSettingsKept, NothingLeftOpen, OnSupportedGame
<1>9. ASSUME NEW next \in {"none", "supported", "other"}, Unload(next) PROVE Inv'
  <2>1. managed \/ client = "detached" BY DEF Inv, NothingLeftOpen
  <2> QED BY <1>9, <2>1, LeavingKeepsInv DEF Unload
<1>10. CASE BrowseFails
  BY <1>10 DEF BrowseFails, Inv, TypeOK, LocalSettingsKept, NothingLeftOpen, OnSupportedGame
<1>11. CASE SessionOffers
  BY <1>11 DEF SessionOffers, Inv, TypeOK, LocalSettingsKept, NothingLeftOpen, OnSupportedGame
<1>12. CASE SessionPublishes
  BY <1>12
  DEF SessionPublishes, Inv, TypeOK, LocalSettingsKept, NothingLeftOpen, OnSupportedGame
<1>13. CASE ClientGoesOn
  BY <1>13 DEF ClientGoesOn, Inv, TypeOK, LocalSettingsKept, NothingLeftOpen, OnSupportedGame
<1>14. CASE UNCHANGED vars
  BY <1>14 DEF vars, Inv, TypeOK, LocalSettingsKept, NothingLeftOpen, OnSupportedGame
<1> QED
  BY <1>1, <1>2, <1>3, <1>4, <1>5, <1>6, <1>7, <1>8, <1>9, <1>10, <1>11, <1>12, <1>13, <1>14
  DEF Next

\* The inductive invariant holds in every behaviour of the window.
THEOREM WindowInvariant == Spec => []Inv
  BY InitInv, NextInv, PTL DEF Spec

\* The settings that leaveSession() restores are always the user's: LocalSettingsKept.
THEOREM SettingsKept == Spec => []LocalSettingsKept
<1>1. Inv => LocalSettingsKept BY DEF Inv
<1> QED BY <1>1, WindowInvariant, PTL

\* No client, request, connection or owner nonce outlives its session: NothingLeftOpen.
THEOREM SessionsEndClean == Spec => []NothingLeftOpen
<1>1. Inv => NothingLeftOpen BY DEF Inv
<1> QED BY <1>1, WindowInvariant, PTL

\* The client is only ever attached to the supported game: OnSupportedGame.
THEOREM ClientOnSupportedGame == Spec => []OnSupportedGame
<1>1. Inv => OnSupportedGame BY DEF Inv
<1> QED BY <1>1, WindowInvariant, PTL
=============================================================================
