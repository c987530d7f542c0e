----------------------------- MODULE RomPatches -----------------------------
(***************************************************************************)
(* The two owners of the loaded program ROM: the debug bridge's runtime    *)
(* patches and save states (DebugBridge::dispatch, patches/ares/0008) and  *)
(* the network client's own patches (Client::patch, patchTitleMenu,        *)
(* restore in client/fzvs_client.cpp).                                     *)
(*                                                                         *)
(* Commands run one at a time on the emulator worker, between frames of    *)
(* the client, so that every handler is one step. A ROM image is a         *)
(* function from offsets to bytes, and its SHA-256 stands for the image.   *)
(* A patch is a pair of functions on the same interval of offsets.         *)
(***************************************************************************)
EXTENDS Naturals, FiniteSets, Functions

CONSTANTS
  Offsets,        \* offsets into the ROM, an interval from 0
  Bytes,
  Roms,           \* images that may be loaded
  Supported,      \* the image whose hash the client requires
  NoRom,
  Race,           \* what prepareRace writes: offset -> byte
  Title,          \* what patchTitleMenu writes: offset -> byte
  MaxPatches,     \* bound: patches applied in a behaviour
  MaxStates,      \* bound: save states taken in a behaviour
  MaxTransfer     \* bound: bytes of one patch (65536 in the code)

ASSUME RomAssumption ==
  /\ Offsets \subseteq Nat /\ MaxPatches \in Nat /\ MaxStates \in Nat /\ MaxTransfer \in Nat
  /\ Roms \subseteq [Offsets -> Bytes] /\ Supported \in [Offsets -> Bytes]
  /\ NoRom \notin [Offsets -> Bytes]
  /\ DOMAIN Race \subseteq Offsets /\ Race \in [DOMAIN Race -> Bytes]
  /\ DOMAIN Title \subseteq Offsets /\ Title \in [DOMAIN Title -> Bytes]
  /\ DOMAIN Race \cap DOMAIN Title = {}

VARIABLES
  base,           \* the image that was loaded: _romSha256
  rom,            \* the live bytes
  patches,        \* _patches: patch id -> Patch
  nextPatch,      \* _nextPatchId
  states,         \* _states: state id -> image it belongs to
  nextState,      \* _nextStateId
  originals,      \* originals of the client: offset -> byte
  titleOriginals, \* titleOriginals of the client
  attached,       \* the client has a game to write to
  reply           \* outcome of the last command

vars == <<base, rom, patches, nextPatch, states, nextState, originals, titleOriginals, attached, reply>>

bridgeVars == <<patches, nextPatch, states, nextState, reply>>
networkVars == <<originals, titleOriginals, attached>>

Nothing == [x \in {} |-> 0]

\* The image after the bytes of f were written.
Overlay(image, f) == [o \in DOMAIN image |-> IF o \in DOMAIN f THEN f[o] ELSE image[o]]

Ranges == {s \in SUBSET Offsets : /\ s # {} /\ Cardinality(s) <= MaxTransfer
                                  /\ \E a, b \in s : s = a .. b}

Writes == UNION {[s -> Bytes] : s \in Ranges}

-----------------------------------------------------------------------------
(* The bridge.                                                             *)

Replies(code) == reply' = code

\* A command that changes nothing but its reply.
Fails(code) == Replies(code) /\ UNCHANGED <<base, rom, patches, nextPatch, states, nextState, networkVars>>

Matches(image, f) == \A o \in DOMAIN f : image[o] = f[o]

\* Mutant: only a patch that begins inside another one overlaps it.
Overlaps_Start(s) ==
  \E id \in DOMAIN patches : \E o \in DOMAIN patches[id].replacement :
    o \in s /\ \A x \in s : o <= x

Overlaps(s) == \E id \in DOMAIN patches : DOMAIN patches[id].replacement \cap s # {}

\* rom.patch. The length check on expected and replacement leaves equal domains.
Patch(sha, expected, replacement) ==
  IF sha # base THEN Fails("ROM_HASH_MISMATCH")
  ELSE IF Overlaps(DOMAIN expected) THEN Fails("PATCH_OVERLAP")
  ELSE IF ~Matches(rom, expected) THEN Fails("EXPECTED_MISMATCH")
  ELSE /\ nextPatch <= MaxPatches
       /\ rom' = Overlay(rom, replacement)
       /\ patches' = [id \in DOMAIN patches \cup {nextPatch} |->
                        IF id = nextPatch THEN [original |-> expected, replacement |-> replacement]
                        ELSE patches[id]]
       /\ nextPatch' = nextPatch + 1
       /\ Replies("ok")
       /\ UNCHANGED <<base, states, nextState, networkVars>>

\* rom.patch.revert
Revert(sha, id) ==
  IF sha # base THEN Fails("ROM_HASH_MISMATCH")
  ELSE IF id \notin DOMAIN patches THEN Fails("PATCH_NOT_FOUND")
  ELSE IF ~Matches(rom, patches[id].replacement) THEN Fails("PATCH_CONFLICT")
  ELSE /\ rom' = Overlay(rom, patches[id].original)
       /\ patches' = Restrict(patches, DOMAIN patches \ {id})
       /\ Replies("ok")
       /\ UNCHANGED <<base, nextPatch, states, nextState, networkVars>>

\* savestate.create
CreateState ==
  /\ nextState <= MaxStates
  /\ states' = [id \in DOMAIN states \cup {nextState} |->
                  IF id = nextState THEN base ELSE states[id]]
  /\ nextState' = nextState + 1
  /\ Replies("ok")
  /\ UNCHANGED <<base, rom, patches, nextPatch, networkVars>>

\* savestate.restore: the program ROM is no part of a state.
RestoreState(id) ==
  Fails(IF id \notin DOMAIN states THEN "SAVESTATE_NOT_FOUND"
        ELSE IF states[id] # base THEN "ROM_HASH_MISMATCH" ELSE "ok")

\* savestate.delete
DeleteState(id) ==
  IF id \notin DOMAIN states THEN Fails("SAVESTATE_NOT_FOUND")
  ELSE /\ states' = Restrict(states, DOMAIN states \ {id})
       /\ Replies("ok")
       /\ UNCHANGED <<base, rom, patches, nextPatch, nextState, networkVars>>

\* A request is refused for its form or its arguments, or ares could not carry it out.
Refuse == Fails("INVALID")

\* The commands on registers, work RAM, the screen and the lists write no ROM.
Answer == Fails("ok")

\* dispatch: without a game there is nothing to work on.
Dispatch ==
  \/ Refuse
  \/ Answer
  \/ base = NoRom /\ Fails("NO_GAME")
  \/ /\ base # NoRom
     /\ \/ \E sha \in Roms, expected \in Writes : \E replacement \in [DOMAIN expected -> Bytes] :
             Patch(sha, expected, replacement)
        \/ \E sha \in Roms, id \in 1 .. MaxPatches : Revert(sha, id)
        \/ CreateState
        \/ \E id \in 1 .. MaxStates : RestoreState(id) \/ DeleteState(id)

\* Mutant: the numbering of patches and states starts again with each game.
Load_Renumbers(r) ==
  /\ base = NoRom
  /\ base' = r /\ rom' = r
  /\ patches' = Nothing /\ states' = Nothing /\ nextPatch' = 1 /\ nextState' = 1
  /\ UNCHANGED <<reply, networkVars>>

\* Program::load, which ends with gameLoaded.
Load(r) ==
  /\ base = NoRom
  /\ base' = r /\ rom' = r
  /\ patches' = Nothing /\ states' = Nothing
  /\ UNCHANGED <<nextPatch, nextState, reply, networkVars>>

\* Program::unload: the client is detached, then gameUnloaded.
Unload ==
  /\ base # NoRom
  /\ base' = NoRom /\ rom' = NoRom
  /\ patches' = Nothing /\ states' = Nothing
  /\ originals' = Nothing /\ titleOriginals' = Nothing /\ attached' = FALSE
  /\ UNCHANGED <<nextPatch, nextState, reply>>

-----------------------------------------------------------------------------
(* The network client.                                                     *)

\* restore() and restoreTitle()
Restored == Overlay(Overlay(rom, originals), titleOriginals)

\* memoryAdapter() hashes the live bytes.
memoryAdapter == rom = Supported

\* patchTitleMenu() draws its tiles and keeps the bytes below them.
patchTitleMenu ==
  /\ titleOriginals' = Restrict(rom, DOMAIN Title)
  /\ rom' = Overlay(rom, Title)

\* fzvsAttach(). The client has no memory to write to before it is attached, so that a
\* failing attach() leaves the ROM alone.
Attach ==
  /\ ~attached /\ memoryAdapter
  /\ patchTitleMenu
  /\ attached' = TRUE
  /\ UNCHANGED <<base, originals, bridgeVars>>

\* prepareRace(): patch() keeps the byte it finds at an offset for the first time.
PrepareRace ==
  /\ attached
  /\ originals' = [o \in DOMAIN originals \cup DOMAIN Race |->
                     IF o \in DOMAIN originals THEN originals[o] ELSE rom[o]]
  /\ rom' = Overlay(rom, Race)
  /\ UNCHANGED <<base, titleOriginals, attached, bridgeVars>>

\* resetGame(), when a new race begins.
ResetGame ==
  /\ attached
  /\ rom' = Overlay(rom, originals)
  /\ originals' = Nothing
  /\ UNCHANGED <<base, titleOriginals, attached, bridgeVars>>

\* detach(), of leaveSession() too, and failure()
Detach ==
  /\ attached
  /\ rom' = Restored
  /\ originals' = Nothing /\ titleOriginals' = Nothing /\ attached' = FALSE
  /\ UNCHANGED <<base, bridgeVars>>

-----------------------------------------------------------------------------

Init ==
  /\ base = NoRom /\ rom = NoRom
  /\ patches = Nothing /\ nextPatch = 1 /\ states = Nothing /\ nextState = 1
  /\ originals = Nothing /\ titleOriginals = Nothing /\ attached = FALSE
  /\ reply = "ok"

Next ==
  \/ Dispatch
  \/ \E r \in Roms : Load(r)
  \/ Unload \/ Attach \/ PrepareRace \/ ResetGame \/ Detach

Spec == Init /\ [][Next]_vars

-----------------------------------------------------------------------------
(* Properties.                                                             *)

Network == DOMAIN Race \cup DOMAIN Title

Codes == {"ok", "INVALID", "NO_GAME", "ROM_HASH_MISMATCH", "PATCH_OVERLAP", "EXPECTED_MISMATCH",
          "PATCH_NOT_FOUND", "PATCH_CONFLICT", "SAVESTATE_NOT_FOUND"}

\* Every variable stays within its type, and there is an image exactly while a game is
\* loaded.
TypeOK ==
  /\ base \in Roms \cup {NoRom}
  /\ IF base = NoRom THEN rom = NoRom /\ patches = Nothing ELSE rom \in [Offsets -> Bytes]
  /\ DOMAIN patches \subseteq 1 .. nextPatch - 1 /\ nextPatch \in 1 .. MaxPatches + 1
  /\ \A id \in DOMAIN patches : \E s \in Ranges : patches[id] \in [original : [s -> Bytes],
                                                                 replacement : [s -> Bytes]]
  /\ DOMAIN states \subseteq 1 .. nextState - 1 /\ nextState \in 1 .. MaxStates + 1
  /\ \A o \in DOMAIN originals : o \in DOMAIN Race /\ originals[o] \in Bytes
  /\ \A o \in DOMAIN titleOriginals : o \in DOMAIN Title /\ titleOriginals[o] \in Bytes
  /\ attached \in BOOLEAN /\ (attached => base # NoRom) /\ reply \in Codes

\* Outside the bytes that the network client writes, the live ROM is the loaded image
\* with the listed patches, no two of which cover the same byte: whatever order they are
\* applied and reverted in, nothing of a reverted patch stays and nothing of a listed one
\* is lost.
PatchesAccountForRom ==
  /\ \A i, j \in DOMAIN patches :
       i # j => DOMAIN patches[i].replacement \cap DOMAIN patches[j].replacement = {}
  /\ base # NoRom =>
       \A o \in Offsets \ Network :
         /\ \A id \in DOMAIN patches : o \in DOMAIN patches[id].replacement =>
              rom[o] = patches[id].replacement[o] /\ patches[id].original[o] = base[o]
         /\ (\A id \in DOMAIN patches : o \notin DOMAIN patches[id].replacement) => rom[o] = base[o]

\* The id of a patch or of a state never comes back once it is gone, not even in another
\* game: a command that names a stale id has no effect on anything else. Ids are handed out
\* in order, and one below the counter can only disappear.
StaleIdsStayStale ==
  [][/\ nextPatch <= nextPatch' /\ nextState <= nextState'
     /\ \A id \in 1 .. nextPatch - 1 : id \in DOMAIN patches' => id \in DOMAIN patches
     /\ \A id \in 1 .. nextState - 1 : id \in DOMAIN states' => id \in DOMAIN states]_vars
=============================================================================
