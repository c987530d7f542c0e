------------------------------ MODULE FrontEnd ------------------------------
(***************************************************************************)
(* The multiplayer window of the patched emulator (desktop-ui/fzvs.cpp in  *)
(* patches/ares/0004 and 0006), which ties a session, the network client,  *)
(* the loaded game and the user's settings together.                       *)
(*                                                                         *)
(* The UI thread's handlers are steps: they hold Program::Guard, which     *)
(* keeps the emulator worker and with it the client out. The session's     *)
(* worker (SessionControl) is what it publishes, and the client            *)
(* (RaceClient) whether it has joined or has failed. The settings that     *)
(* activateSession() replaces are one value, and pausing is another.       *)
(***************************************************************************)
EXTENDS Naturals

CONSTANTS
  Choices,       \* values the user gives the settings
  Network        \* the value they have in a session

ASSUME ChoiceAssumption == Network \notin Choices /\ Choices # {}

VARIABLES
  managed,       \* managedSession
  settings,      \* the replaced settings
  paused,        \* program.paused
  saved,         \* savedNetworkSettings: [settings, paused]
  chosen,        \* what the user set outside of sessions: [settings, paused]
  rom,           \* "none", "supported" or "other"
  client,        \* "detached", "connecting", "joined" or "disconnected"
  owner,         \* config.ownerNonce is set
  kind,          \* what the session was last asked for: "host" or "join"
  session,       \* state that the session publishes; "starting" is also resolving
  offer          \* its connection: "none", "asked" for, "waiting" in it, or "taken"

vars == <<managed, settings, paused, saved, chosen, rom, client, owner,
          kind, session, offer>>
local == <<settings, paused, saved, chosen>>
remote == <<client, owner, kind, session, offer>>

-----------------------------------------------------------------------------
(* What handlers share.                                                    *)

\* activateSession()
activateSession ==
  /\ saved' = [settings |-> settings, paused |-> paused]
  /\ settings' = Network /\ managed' = TRUE
  /\ UNCHANGED paused

\* Mutant: the owner's nonce stays in the configuration.
leaveSession_KeepsNonce ==
  IF ~managed THEN UNCHANGED <<managed, local, remote>>
  ELSE /\ managed' = FALSE
       /\ client' = "detached" /\ session' = "idle" /\ offer' = "none"
       /\ settings' = saved.settings /\ paused' = saved.paused
       /\ UNCHANGED <<saved, chosen, owner, kind>>

\* Mutant: the game stays as TakeConnection left it, not paused.
leaveSession_KeepsPause ==
  IF ~managed THEN UNCHANGED <<managed, local, remote>>
  ELSE /\ managed' = FALSE
       /\ client' = "detached" /\ owner' = FALSE /\ session' = "idle" /\ offer' = "none"
       /\ settings' = saved.settings
       /\ UNCHANGED <<paused, saved, chosen, kind>>

\* leaveSession(): the client is detached, the session's worker ended, the settings restored.
leaveSession ==
  IF ~managed THEN UNCHANGED <<managed, local, remote>>
  ELSE /\ managed' = FALSE
       /\ client' = "detached" /\ owner' = FALSE /\ session' = "idle" /\ offer' = "none"
       /\ settings' = saved.settings /\ paused' = saved.paused
       /\ UNCHANGED <<saved, chosen, kind>>

-----------------------------------------------------------------------------
(* The window.                                                             *)

\* begin(): the form is not in order, or ensureROM() finds no game that will do. It may
\* have loaded another one.
BeginFails ==
  /\ ~managed
  /\ rom' \in {rom} \cup (IF rom = "supported" THEN {} ELSE {"none", "other"})
  /\ UNCHANGED <<managed, local, remote>>

\* begin(): the session takes the request.
Begin(k) ==
  /\ ~managed
  /\ rom' = "supported"
  /\ activateSession
  /\ kind' = k /\ session' = "starting" /\ offer' = "asked"
  /\ UNCHANGED <<chosen, client, owner>>

\* begin(): the session has no worker (the error it then publishes stays) or no place in its
\* queue, and leaveSession() restores the settings that were replaced.
BeginRefused ==
  /\ ~managed
  /\ rom' = "supported"
  /\ saved' = [settings |-> settings, paused |-> paused]
  /\ session' \in {"idle", "error"}
  /\ UNCHANGED <<managed, settings, paused, chosen, client, owner, kind, offer>>

\* Leave, Stop hosting and Cancel
Leave == leaveSession /\ UNCHANGED rom

\* fzvsRefreshUI() takes the connection, and fzvsAttach() succeeds.
TakeConnection ==
  /\ offer = "waiting" /\ managed /\ rom = "supported"
  /\ offer' = "taken"
  /\ owner' = (kind = "host") /\ client' = "connecting" /\ paused' = FALSE
  /\ UNCHANGED <<managed, settings, saved, chosen, rom, kind, session>>

\* fzvsAttach() fails.
AttachFails == offer = "waiting" /\ managed /\ leaveSession /\ UNCHANGED rom

\* Mutant: only a client that has failed ends the session.
Refresh_ClientOnly ==
  /\ managed
  /\ IF client = "disconnected" THEN leaveSession
     ELSE /\ session' = IF client = "joined" /\ session = "connecting" THEN "connected" ELSE session
          /\ UNCHANGED <<managed, local, client, owner, kind, offer>>
  /\ UNCHANGED rom

\* The rest of fzvsRefreshUI(), every 200 ms.
Refresh ==
  /\ managed
  /\ IF client = "disconnected" \/ session = "error" THEN leaveSession
     ELSE /\ session' = IF client = "joined" /\ session = "connecting" THEN "connected" ELSE session
          /\ UNCHANGED <<managed, local, client, owner, kind, offer>>
  /\ UNCHANGED rom

\* The settings window and the pause command, which in a session only the debug bridge
\* can give.
UserSets(v, p) ==
  /\ settings' = v /\ paused' = p
  /\ chosen' = IF managed THEN chosen ELSE [settings |-> v, paused |-> p]
  /\ UNCHANGED <<managed, saved, rom, remote>>

\* Program::unload, alone, before another game is loaded, or in quit().
Unload(next) ==
  /\ rom # "none"
  /\ leaveSession
  /\ rom' = next

-----------------------------------------------------------------------------
(* The session's worker and the client.                                    *)

\* start() in browse() fails: there is no thread for the worker.
BrowseFails ==
  /\ ~managed
  /\ session' = "error"
  /\ UNCHANGED <<managed, local, rom, client, owner, kind, offer>>

\* The worker has a server or an address. What it publishes follows later.
SessionOffers ==
  /\ offer = "asked" /\ session = "starting"
  /\ offer' = "waiting"
  /\ UNCHANGED <<managed, local, rom, client, owner, kind, session>>

\* The worker publishes that it waits for the client, that the host has joined, that it has
\* failed, or that the host's server has closed.
SessionPublishes ==
  /\ \/ /\ session = "starting" /\ kind = "join" /\ offer # "asked"
        /\ session' = "connecting"
     \/ /\ session = "starting" /\ kind = "host" /\ client = "joined"
        /\ session' = "hosting"
     \/ /\ session \in {"starting", "hosting"} /\ (kind = "host" \/ offer = "asked")
        /\ session' = "error"
     \/ session = "hosting" /\ session' = "idle"
  /\ UNCHANGED <<managed, local, rom, client, owner, kind, offer>>

\* The emulator's worker: the client is admitted, or it fails.
ClientGoesOn ==
  /\ \/ client = "connecting" /\ client' = "joined"
     \/ client \in {"connecting", "joined"} /\ client' = "disconnected"
  /\ UNCHANGED <<managed, local, rom, owner, kind, session, offer>>

-----------------------------------------------------------------------------

Init ==
  /\ managed = FALSE /\ settings \in Choices /\ paused = FALSE
  /\ chosen = [settings |-> settings, paused |-> paused] /\ saved = chosen
  /\ rom = "none" /\ client = "detached" /\ owner = FALSE
  /\ kind = "host" /\ session = "idle" /\ offer = "none"

Next ==
  \/ BeginFails \/ (\E k \in {"host", "join"} : Begin(k)) \/ BeginRefused \/ Leave \/ TakeConnection \/ AttachFails \/ Refresh
  \/ \E v \in Choices, p \in BOOLEAN : UserSets(v, p)
  \/ \E next \in {"none", "supported", "other"} : Unload(next)
  \/ BrowseFails \/ SessionOffers \/ SessionPublishes \/ ClientGoesOn

Spec == Init /\ [][Next]_vars

\* Program::main calls fzvsRefreshUI() again and again.
FairSpec == Spec /\ WF_vars(Refresh)

-----------------------------------------------------------------------------
(* Properties.                                                             *)

\* Every variable stays within its type; what is saved is never what a session has set.
TypeOK ==
  /\ managed \in BOOLEAN /\ paused \in BOOLEAN /\ owner \in BOOLEAN
  /\ settings \in Choices \cup {Network}
  /\ saved \in [settings : Choices, paused : BOOLEAN]
  /\ chosen \in [settings : Choices, paused : BOOLEAN]
  /\ rom \in {"none", "supported", "other"}
  /\ client \in {"detached", "connecting", "joined", "disconnected"}
  /\ kind \in {"host", "join"} /\ offer \in {"none", "asked", "waiting", "taken"}
  /\ session \in {"idle", "starting", "connecting", "connected", "hosting", "error"}

\* "Guest Leave restores ROM patches and the previous local pause, audio, defocus, rewind,
\* run-ahead and debugger settings" (docs/hosting.md): on whatever path a session ends, the
\* user has their settings back, and those of a session never become the saved ones.
LocalSettingsKept == ~managed => chosen = [settings |-> settings, paused |-> paused]

\* Outside of a session no client is attached and no request or connection is left in the
\* worker. A room's owner nonce is only held by the host of the session it belongs to.
NothingLeftOpen ==
  /\ ~managed => client = "detached" /\ offer = "none" /\ session \in {"idle", "error"}
  /\ owner => managed /\ kind = "host"

\* The client only ever works on the supported game, however games are loaded meanwhile.
OnSupportedGame == client # "detached" => rom = "supported"

\* A session whose client or worker has failed is left.
FailedSessionsEnd ==
  (managed /\ (client = "disconnected" \/ session = "error")) ~> ~managed
=============================================================================
