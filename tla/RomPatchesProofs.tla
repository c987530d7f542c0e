-------------------------- MODULE RomPatchesProofs --------------------------
(***************************************************************************)
(* The bookkeeping of the debug bridge's ROM patches, for any ROM, any     *)
(* number of patches and any writes of the network client. The inductive   *)
(* invariant is TypeOK together with PatchesAccountForRom: an overlap is   *)
(* refused because every listed patch is in the ROM, and every listed      *)
(* patch is in the ROM because overlaps are refused.                       *)
(***************************************************************************)
EXTENDS RomPatches, TLAPS

Inv == TypeOK /\ PatchesAccountForRom

\* Writing the bytes of f over an image gives an image, changed on the domain of f alone.
LEMMA OverlayBytes ==
  ASSUME NEW image \in [Offsets -> Bytes], NEW f, \A o \in DOMAIN f : o \in Offsets => f[o] \in Bytes
  PROVE  /\ Overlay(image, f) \in [Offsets -> Bytes]
         /\ \A o \in Offsets : Overlay(image, f)[o] = IF o \in DOMAIN f THEN f[o] ELSE image[o]
  BY DEF Overlay

\* The empty function has nothing in its domain.
LEMMA NothingEmpty == DOMAIN Nothing = {}
  BY DEF Nothing

\* No game is loaded in the initial state.
LEMMA InitInv == Init => Inv
<1> SUFFICES ASSUME Init PROVE Inv
  OBVIOUS
<1>1. /\ DOMAIN patches = {} /\ DOMAIN states = {}
      /\ DOMAIN originals = {} /\ DOMAIN titleOriginals = {}
  BY NothingEmpty DEF Init
<1>2. nextPatch \in 1 .. MaxPatches + 1 /\ nextState \in 1 .. MaxStates + 1
  BY RomAssumption DEF Init
<1>3. TypeOK
  BY <1>1, <1>2 DEF Init, TypeOK, Codes
<1>4. PatchesAccountForRom
  BY <1>1 DEF Init, PatchesAccountForRom
<1> QED
  BY <1>3, <1>4 DEF Inv

\* A command that fails, or that answers from the state, preserves the invariant.
LEMMA FailsInv ==
  ASSUME Inv, NEW code \in Codes, Fails(code)
  PROVE  Inv'
<1>1. TypeOK'
  BY DEF Inv, TypeOK, Fails, Replies, networkVars
<1>2. PatchesAccountForRom'
  BY DEF Inv, PatchesAccountForRom, Fails
<1> QED
  BY <1>1, <1>2 DEF Inv

\* rom.patch: the new patch covers bytes of no listed one, and expected is what was there.
LEMMA PatchInv ==
  ASSUME Inv, base # NoRom, NEW sha \in Roms, NEW s \in Ranges,
         NEW expected \in [s -> Bytes], NEW replacement \in [s -> Bytes],
         Patch(sha, expected, replacement)
  PROVE  Inv'
<1>1. CASE sha # base
  BY <1>1, FailsInv DEF Patch, Codes
<1>2. CASE sha = base /\ Overlaps(DOMAIN expected)
  BY <1>2, FailsInv DEF Patch, Codes
<1>3. CASE sha = base /\ ~Overlaps(DOMAIN expected) /\ ~Matches(rom, expected)
  BY <1>3, FailsInv DEF Patch, Codes
<1>4. CASE sha = base /\ ~Overlaps(DOMAIN expected) /\ Matches(rom, expected)
  <2> DEFINE new == [original |-> expected, replacement |-> replacement]
  <2>1. /\ nextPatch <= MaxPatches
        /\ rom' = Overlay(rom, replacement)
        /\ patches' = [id \in DOMAIN patches \cup {nextPatch} |->
                         IF id = nextPatch THEN new ELSE patches[id]]
        /\ nextPatch' = nextPatch + 1
        /\ reply' = "ok"
        /\ UNCHANGED <<base, states, nextState, originals, titleOriginals, attached>>
    BY <1>4 DEF Patch, Replies, networkVars
  <2>2. DOMAIN expected = s /\ DOMAIN replacement = s /\ s \subseteq Offsets
    BY DEF Ranges
  <2>3. DOMAIN patches \subseteq 1 .. nextPatch - 1 /\ nextPatch \in Nat /\ rom \in [Offsets -> Bytes]
    BY RomAssumption DEF Inv, TypeOK
  <2>4. nextPatch \notin DOMAIN patches
    BY <2>3
  <2>5. /\ DOMAIN patches' = DOMAIN patches \cup {nextPatch}
        /\ patches'[nextPatch] = new
        /\ \A id \in DOMAIN patches : patches'[id] = patches[id]
    BY <2>1, <2>4
  <2>6. /\ rom' \in [Offsets -> Bytes]
        /\ \A o \in Offsets : rom'[o] = IF o \in s THEN replacement[o] ELSE rom[o]
    BY <2>1, <2>2, <2>3, OverlayBytes
  <2>7. TypeOK'
    <3>1. nextPatch' \in 1 .. MaxPatches + 1 /\ DOMAIN patches' \subseteq 1 .. nextPatch' - 1
      BY <2>1, <2>3, <2>5, RomAssumption DEF Inv, TypeOK
    <3>2. \A id \in DOMAIN patches' : \E t \in Ranges :
            patches'[id] \in [original : [t -> Bytes], replacement : [t -> Bytes]]
      BY <2>5 DEF Inv, TypeOK
    <3> QED
      BY <2>1, <2>6, <3>1, <3>2 DEF Inv, TypeOK, Codes
  <2>8. \A id \in DOMAIN patches : DOMAIN patches[id].replacement \cap s = {}
    BY <1>4, <2>2 DEF Overlaps
  <2>9. \A o \in s : rom[o] = expected[o]
    BY <1>4, <2>2 DEF Matches
  <2>10. PatchesAccountForRom'
    <3>1. \A i, j \in DOMAIN patches' :
            i # j => DOMAIN patches'[i].replacement \cap DOMAIN patches'[j].replacement = {}
      BY <2>2, <2>5, <2>8 DEF Inv, PatchesAccountForRom
    <3>2. ASSUME NEW o \in Offsets \ Network
          PROVE  /\ \A id \in DOMAIN patches' : o \in DOMAIN patches'[id].replacement =>
                      rom'[o] = patches'[id].replacement[o] /\ patches'[id].original[o] = base[o]
                 /\ (\A id \in DOMAIN patches' : o \notin DOMAIN patches'[id].replacement)
                      => rom'[o] = base[o]
      <4>1. CASE o \in s
        <5>1. \A id \in DOMAIN patches : o \notin DOMAIN patches[id].replacement
          BY <2>8, <4>1
        <5>2. expected[o] = base[o]
          BY <2>9, <4>1, <5>1 DEF Inv, PatchesAccountForRom
        <5> QED
          BY <2>2, <2>5, <2>6, <4>1, <5>1, <5>2
      <4>2. CASE o \notin s
        BY <2>2, <2>5, <2>6, <4>2 DEF Inv, PatchesAccountForRom
      <4> QED
        BY <4>1, <4>2
    <3>3. base' = base
      BY <2>1
    <3> QED
      BY <3>1, <3>2, <3>3 DEF PatchesAccountForRom
  <2> QED
    BY <2>7, <2>10 DEF Inv
<1> QED
  BY <1>1, <1>2, <1>3, <1>4

\* rom.patch.revert: the bytes of the patch go back to those of the loaded image, and no
\* other patch covers them.
LEMMA RevertInv ==
  ASSUME Inv, base # NoRom, NEW sha \in Roms, NEW n, Revert(sha, n)
  PROVE  Inv'
<1>1. CASE sha # base \/ n \notin DOMAIN patches \/ ~Matches(rom, patches[n].replacement)
  BY <1>1, FailsInv DEF Revert, Codes
<1>2. CASE sha = base /\ n \in DOMAIN patches /\ Matches(rom, patches[n].replacement)
  <2>1. /\ rom' = Overlay(rom, patches[n].original)
        /\ patches' = Restrict(patches, DOMAIN patches \ {n})
        /\ reply' = "ok"
        /\ UNCHANGED <<base, nextPatch, states, nextState, originals, titleOriginals, attached>>
    BY <1>2 DEF Revert, Replies, networkVars
  <2>2. /\ DOMAIN patches' = DOMAIN patches \ {n}
        /\ \A id \in DOMAIN patches \ {n} : patches'[id] = patches[id]
    BY <2>1 DEF Restrict
  <2>3. PICK s \in Ranges : patches[n] \in [original : [s -> Bytes], replacement : [s -> Bytes]]
    BY <1>2 DEF Inv, TypeOK
  <2>4. /\ DOMAIN patches[n].original = s /\ DOMAIN patches[n].replacement = s
        /\ \A o \in s : patches[n].original[o] \in Bytes
    BY <2>3
  <2>5. /\ rom' \in [Offsets -> Bytes]
        /\ \A o \in Offsets : rom'[o] = IF o \in s THEN patches[n].original[o] ELSE rom[o]
    BY <2>1, <2>4, OverlayBytes DEF Inv, TypeOK
  <2>6. TypeOK'
    BY <2>1, <2>2, <2>5 DEF Inv, TypeOK, Codes
  <2>7. \A id \in DOMAIN patches' : DOMAIN patches'[id].replacement \cap s = {}
    BY <1>2, <2>2, <2>4 DEF Inv, PatchesAccountForRom
  <2>8. ASSUME NEW o \in Offsets \ Network
        PROVE  /\ \A id \in DOMAIN patches' : o \in DOMAIN patches'[id].replacement =>
                    rom'[o] = patches'[id].replacement[o] /\ patches'[id].original[o] = base[o]
               /\ (\A id \in DOMAIN patches' : o \notin DOMAIN patches'[id].replacement)
                    => rom'[o] = base[o]
    <3>1. CASE o \in s
      BY <1>2, <2>4, <2>5, <2>7, <3>1 DEF Inv, PatchesAccountForRom
    <3>2. CASE o \notin s
      BY <2>2, <2>4, <2>5, <3>2 DEF Inv, PatchesAccountForRom
    <3> QED
      BY <3>1, <3>2
  <2>9. PatchesAccountForRom'
    <3>1. base' = base
      BY <2>1
    <3>2. \A i, j \in DOMAIN patches' :
            i # j => DOMAIN patches'[i].replacement \cap DOMAIN patches'[j].replacement = {}
      BY <2>2 DEF Inv, PatchesAccountForRom
    <3> QED
      BY <2>8, <3>1, <3>2 DEF PatchesAccountForRom
  <2> QED
    BY <2>6, <2>9 DEF Inv
<1> QED
  BY <1>1, <1>2

\* A step of the network client writes to its own offsets alone.
LEMMA NetworkInv ==
  ASSUME Inv, base # NoRom, UNCHANGED <<base, bridgeVars>>, attached' \in BOOLEAN,
         rom' \in [Offsets -> Bytes], \A o \in Offsets \ Network : rom'[o] = rom[o],
         \A o \in DOMAIN originals' : o \in DOMAIN Race /\ originals'[o] \in Bytes,
         \A o \in DOMAIN titleOriginals' : o \in DOMAIN Title /\ titleOriginals'[o] \in Bytes
  PROVE  Inv'
<1>1. UNCHANGED <<base, patches, nextPatch, states, nextState, reply>>
  BY DEF bridgeVars
<1>2. TypeOK'
  BY <1>1 DEF Inv, TypeOK
<1>3. PatchesAccountForRom'
  BY <1>1 DEF Inv, PatchesAccountForRom
<1> QED
  BY <1>2, <1>3 DEF Inv

\* Saved bytes are bytes at the offsets of the client's patches.
LEMMA SavedBytes ==
  ASSUME Inv
  PROVE  /\ \A o \in DOMAIN originals : o \in Offsets /\ o \in Network /\ originals[o] \in Bytes
         /\ \A o \in DOMAIN titleOriginals : o \in Offsets /\ o \in Network /\ titleOriginals[o] \in Bytes
  BY RomAssumption DEF Inv, TypeOK, Network

\* attach() and fzvsAttach()
LEMMA AttachInv ==
  ASSUME Inv, Attach
  PROVE  Inv'
<1>1. rom \in [Offsets -> Bytes] /\ base # NoRom
  BY RomAssumption DEF Inv, TypeOK, Attach, memoryAdapter
<1>2. /\ rom' \in [Offsets -> Bytes]
      /\ \A o \in Offsets : rom'[o] = IF o \in DOMAIN Title THEN Title[o] ELSE rom[o]
  BY <1>1, OverlayBytes, RomAssumption DEF Attach, patchTitleMenu
<1>3. \A o \in Offsets \ Network : rom'[o] = rom[o]
  BY <1>2 DEF Network
<1>4. \A o \in DOMAIN titleOriginals' : o \in DOMAIN Title /\ titleOriginals'[o] \in Bytes
  BY <1>1, RomAssumption DEF Attach, patchTitleMenu, Restrict
<1>5. \A o \in DOMAIN originals' : o \in DOMAIN Race /\ originals'[o] \in Bytes
  BY DEF Inv, TypeOK, Attach
<1> QED
  BY <1>1, <1>2, <1>3, <1>4, <1>5, NetworkInv DEF Attach

\* prepareRace()
LEMMA PrepareRaceInv ==
  ASSUME Inv, PrepareRace
  PROVE  Inv'
<1>1. rom \in [Offsets -> Bytes] /\ base # NoRom
  BY DEF Inv, TypeOK, PrepareRace
<1>2. /\ rom' \in [Offsets -> Bytes]
      /\ \A o \in Offsets : rom'[o] = IF o \in DOMAIN Race THEN Race[o] ELSE rom[o]
  BY <1>1, OverlayBytes, RomAssumption DEF PrepareRace
<1>3. \A o \in Offsets \ Network : rom'[o] = rom[o]
  BY <1>2 DEF Network
<1>4. \A o \in DOMAIN originals' : o \in DOMAIN Race /\ originals'[o] \in Bytes
  BY <1>1, RomAssumption DEF Inv, TypeOK, PrepareRace
<1>5. \A o \in DOMAIN titleOriginals' : o \in DOMAIN Title /\ titleOriginals'[o] \in Bytes
  BY DEF Inv, TypeOK, PrepareRace
<1>6. UNCHANGED <<base, bridgeVars>> /\ attached' \in BOOLEAN
  BY DEF Inv, TypeOK, PrepareRace
<1> QED
  BY <1>1, <1>2, <1>3, <1>4, <1>5, <1>6, NetworkInv

\* resetGame()
LEMMA ResetGameInv ==
  ASSUME Inv, ResetGame
  PROVE  Inv'
<1>1. rom \in [Offsets -> Bytes] /\ base # NoRom
  BY DEF Inv, TypeOK, ResetGame
<1>2. /\ rom' \in [Offsets -> Bytes]
      /\ \A o \in Offsets : rom'[o] = IF o \in DOMAIN originals THEN originals[o] ELSE rom[o]
  BY <1>1, OverlayBytes, SavedBytes DEF ResetGame
<1>3. \A o \in Offsets \ Network : rom'[o] = rom[o]
  BY <1>2, SavedBytes
<1>4. \A o \in DOMAIN originals' : o \in DOMAIN Race /\ originals'[o] \in Bytes
  BY NothingEmpty DEF ResetGame
<1>5. \A o \in DOMAIN titleOriginals' : o \in DOMAIN Title /\ titleOriginals'[o] \in Bytes
  BY DEF Inv, TypeOK, ResetGame
<1>6. UNCHANGED <<base, bridgeVars>> /\ attached' \in BOOLEAN
  BY DEF Inv, TypeOK, ResetGame
<1> QED
  BY <1>1, <1>2, <1>3, <1>4, <1>5, <1>6, NetworkInv

\* detach() and failure()
LEMMA DetachInv ==
  ASSUME Inv, Detach
  PROVE  Inv'
<1>1. rom \in [Offsets -> Bytes] /\ base # NoRom
  BY DEF Inv, TypeOK, Detach
<1> DEFINE mid == Overlay(rom, originals)
<1>2. /\ mid \in [Offsets -> Bytes]
      /\ \A o \in Offsets \ Network : mid[o] = rom[o]
  BY <1>1, OverlayBytes, SavedBytes
<1>3. rom' = Overlay(mid, titleOriginals)
  BY DEF Detach, Restored
<1>4. /\ rom' \in [Offsets -> Bytes]
      /\ \A o \in Offsets \ Network : rom'[o] = rom[o]
  <2> HIDE DEF mid
  <2> QED
    BY <1>2, <1>3, OverlayBytes, SavedBytes
<1>5. /\ \A o \in DOMAIN originals' : o \in DOMAIN Race /\ originals'[o] \in Bytes
      /\ \A o \in DOMAIN titleOriginals' : o \in DOMAIN Title /\ titleOriginals'[o] \in Bytes
  BY NothingEmpty DEF Detach
<1>6. UNCHANGED <<base, bridgeVars>> /\ attached' \in BOOLEAN
  BY DEF Detach
<1> QED
  BY <1>1, <1>4, <1>5, <1>6, NetworkInv

\* The save states do not touch the ROM.
LEMMA StatesInv ==
  ASSUME Inv, NEW n, CreateState \/ RestoreState(n) \/ DeleteState(n)
  PROVE  Inv'
<1>1. CASE RestoreState(n) \/ (DeleteState(n) /\ n \notin DOMAIN states)
  BY <1>1, FailsInv DEF RestoreState, DeleteState, Codes
<1>2. CASE CreateState \/ (DeleteState(n) /\ n \in DOMAIN states)
  <2>1. /\ UNCHANGED <<base, rom, patches, nextPatch, originals, titleOriginals, attached>>
        /\ reply' = "ok"
    BY <1>2 DEF CreateState, DeleteState, Replies, networkVars
  <2>2. DOMAIN states' \subseteq 1 .. nextState' - 1 /\ nextState' \in 1 .. MaxStates + 1
    BY <1>2, RomAssumption DEF CreateState, DeleteState, Restrict, Inv, TypeOK
  <2>3. TypeOK'
    BY <2>1, <2>2 DEF Inv, TypeOK, Codes
  <2>4. PatchesAccountForRom'
    BY <2>1 DEF Inv, PatchesAccountForRom
  <2> QED
    BY <2>3, <2>4 DEF Inv
<1> QED
  BY <1>1, <1>2

\* gameLoaded() and gameUnloaded() clear the patches together with the image.
LEMMA GameInv ==
  ASSUME Inv, Unload \/ \E r \in Roms : Load(r)
  PROVE  Inv'
<1>1. /\ patches' = Nothing /\ states' = Nothing
      /\ UNCHANGED <<nextPatch, nextState, reply>>
      /\ \/ base' \in Roms /\ rom' = base' /\ UNCHANGED <<originals, titleOriginals, attached>> /\ base = NoRom
         \/ base' = NoRom /\ rom' = NoRom /\ originals' = Nothing /\ titleOriginals' = Nothing /\ attached' = FALSE
  BY DEF Unload, Load, networkVars
<1>2. DOMAIN patches' = {} /\ DOMAIN states' = {}
  BY <1>1, NothingEmpty
<1>3. IF base' = NoRom THEN rom' = NoRom ELSE rom' \in [Offsets -> Bytes]
  BY <1>1, RomAssumption
<1>4. /\ \A o \in DOMAIN originals' : o \in DOMAIN Race /\ originals'[o] \in Bytes
      /\ \A o \in DOMAIN titleOriginals' : o \in DOMAIN Title /\ titleOriginals'[o] \in Bytes
  BY <1>1, NothingEmpty DEF Inv, TypeOK
<1>5. attached' = FALSE
  BY <1>1 DEF Inv, TypeOK
<1>6. TypeOK'
  BY <1>1, <1>2, <1>3, <1>4, <1>5 DEF Inv, TypeOK
<1>7. PatchesAccountForRom'
  BY <1>1, <1>2 DEF PatchesAccountForRom
<1> QED
  BY <1>6, <1>7 DEF Inv

\* Every step of the bridge, of the client and of the program preserves the invariant.
LEMMA NextInv == Inv /\ [Next]_vars => Inv'
<1> SUFFICES ASSUME Inv, [Next]_vars PROVE Inv'
  OBVIOUS
<1>1. CASE Dispatch
  <2>1. CASE Refuse \/ Answer \/ Fails("NO_GAME")
    BY <2>1, FailsInv DEF Refuse, Answer, Codes
  <2>2. CASE base # NoRom /\ \E sha \in Roms, expected \in Writes :
               \E replacement \in [DOMAIN expected -> Bytes] : Patch(sha, expected, replacement)
    BY <2>2, PatchInv DEF Writes
  <2>3. CASE base # NoRom /\ \E sha \in Roms, n \in 1 .. MaxPatches : Revert(sha, n)
    BY <2>3, RevertInv
  <2>4. CASE CreateState \/ \E n \in 1 .. MaxStates : RestoreState(n) \/ DeleteState(n)
    BY <2>4, StatesInv
  <2> QED
    BY <1>1, <2>1, <2>2, <2>3, <2>4 DEF Dispatch
<1>2. CASE Unload \/ \E r \in Roms : Load(r)
  BY <1>2, GameInv
<1>3. CASE Attach
  BY <1>3, AttachInv
<1>4. CASE PrepareRace
  BY <1>4, PrepareRaceInv
<1>5. CASE ResetGame
  BY <1>5, ResetGameInv
<1>6. CASE Detach
  BY <1>6, DetachInv
<1>7. CASE UNCHANGED vars
  <2>1. TypeOK'
    BY <1>7 DEF vars, Inv, TypeOK
  <2>2. PatchesAccountForRom'
    BY <1>7 DEF vars, Inv, PatchesAccountForRom
  <2> QED
    BY <2>1, <2>2 DEF Inv
<1> QED
  BY <1>1, <1>2, <1>3, <1>4, <1>5, <1>6, <1>7 DEF Next

\* The bookkeeping of the bridge is well formed in every reachable state: the ids of
\* _patches and _states are ones that were handed out, and every patch holds two byte
\* strings for one range of the ROM.
THEOREM RomTypeCorrect == Spec => []TypeOK
<1>1. Inv => TypeOK
  BY DEF Inv
<1> QED
  BY <1>1, InitInv, NextInv, PTL DEF Spec

\* Outside the offsets of the network client the live ROM is, in every reachable state,
\* the loaded image with the listed patches: rom.patch and rom.patch.revert lose nothing
\* and leave nothing behind, in whatever order they are called.
THEOREM PatchesAccount == Spec => []PatchesAccountForRom
<1>1. Inv => PatchesAccountForRom
  BY DEF Inv
<1> QED
  BY <1>1, InitInv, NextInv, PTL DEF Spec

\* An id of _patches or _states that is gone never names anything again, because the
\* counters survive gameLoaded() and gameUnloaded().
THEOREM StaleIds == Spec => StaleIdsStayStale
<1> DEFINE Stale == /\ nextPatch <= nextPatch' /\ nextState <= nextState'
                    /\ \A id \in 1 .. nextPatch - 1 : id \in DOMAIN patches' => id \in DOMAIN patches
                    /\ \A id \in 1 .. nextState - 1 : id \in DOMAIN states' => id \in DOMAIN states
<1>1. ASSUME Inv, [Next]_vars PROVE [Stale]_vars
  <2>1. nextPatch \in Nat /\ nextState \in Nat
    BY <1>1, RomAssumption DEF Inv, TypeOK
  <2> DEFINE Grows == /\ nextPatch' \in {nextPatch, nextPatch + 1}
                      /\ nextState' \in {nextState, nextState + 1}
                      /\ DOMAIN patches' \subseteq DOMAIN patches \cup {nextPatch}
                      /\ DOMAIN states' \subseteq DOMAIN states \cup {nextState}
  <2>2. ASSUME Dispatch PROVE Grows
    <3>1. ASSUME NEW code, Fails(code) PROVE Grows
      BY <3>1 DEF Fails
    <3>2. ASSUME NEW sha, NEW expected, NEW replacement, Patch(sha, expected, replacement) PROVE Grows
      BY <3>1, <3>2 DEF Patch
    <3>3. ASSUME NEW sha, NEW n, Revert(sha, n) PROVE Grows
      BY <3>1, <3>3 DEF Revert, Restrict
    <3>4. ASSUME CreateState PROVE Grows
      BY <3>4 DEF CreateState
    <3>5. ASSUME NEW n, RestoreState(n) \/ DeleteState(n) PROVE Grows
      BY <3>1, <3>5 DEF RestoreState, DeleteState, Restrict
    <3> HIDE DEF Grows
    <3> QED
      BY <2>2, <3>1, <3>2, <3>3, <3>4, <3>5 DEF Dispatch, Refuse, Answer
  <2>3. ASSUME Unload \/ \E r \in Roms : Load(r) PROVE Grows
    BY <2>3, NothingEmpty DEF Unload, Load
  <2>4. ASSUME Attach \/ PrepareRace \/ ResetGame \/ Detach PROVE Grows
    BY <2>4 DEF Attach, PrepareRace, ResetGame, Detach, bridgeVars
  <2>5. Grows \/ UNCHANGED vars
    <3> HIDE DEF Grows
    <3> QED
      BY <1>1, <2>2, <2>3, <2>4 DEF Next
  <2> QED
    BY <2>1, <2>5
<1> QED
  BY <1>1, InitInv, NextInv, PTL DEF Spec, StaleIdsStayStale
=============================================================================
