--------------------------- MODULE ClientRotation ---------------------------
(***************************************************************************)
(* backends/gemini/executor.py: rotation of the API key.  The watcher of   *)
(* the key file copies the key into the environment and asks for a         *)
(* rotation; the next request builds the new client and swaps it in only   *)
(* if that worked.  Keys are numbered in the order the operator writes     *)
(* them; 0 is no key at all.                                               *)
(***************************************************************************)
EXTENDS Naturals

CONSTANTS MaxKey,   \* bound: rotations by the operator
          BadKeys   \* keys no client can be built with

(* Key 1 is there at the start.                                            *)
RotAssumption == MaxKey \in Nat \ {0}

VARIABLES keyFile,  \* the key in the file
          noticed,  \* the watcher has handled the last change of the file
          envKey,   \* GEMINI_API_KEY
          client,   \* the key of _genai_client, 0 when there is none
          rotation, \* _rotation_pending
          stale,    \* keys of _clients_pending_close
          served,   \* the key the last _get_client returned, 0 when it raised
          shut      \* _close_client has run

rotvars == <<keyFile, noticed, envKey, client, rotation, stale, served, shut>>

\* The executor refuses to start without a key (__init__).
RotInit ==
    /\ keyFile = 1 /\ noticed = TRUE /\ envKey = 1
    /\ client = 0 /\ rotation = FALSE /\ stale = {}
    /\ served = 0 /\ shut = FALSE

\* The operator writes the next key.
WriteKey ==
    /\ keyFile < MaxKey
    /\ keyFile' = keyFile + 1
    /\ noticed' = FALSE
    /\ UNCHANGED <<envKey, client, rotation, stale, served, shut>>

\* Mutant: the new key is stored but no rotation requested.
NoRotation == rotation' = rotation
RequestRotation == rotation' = TRUE

\* api_key_file_watcher: a file seen empty or unreadable file leaves the environment
\* as it is, the rotation is requested all the same.
Watch(readable) ==
    /\ ~noticed
    /\ envKey' = IF readable THEN keyFile ELSE envKey
    /\ noticed' = readable      \* completing the file is another change
    /\ RequestRotation
    /\ UNCHANGED <<keyFile, client, stale, served, shut>>

Buildable == envKey # 0 /\ envKey \notin BadKeys

\* Mutant: the old client is dropped before the new one is built.
FallBackBlank == client' = 0 /\ served' = 0
\* Nothing to build from: keep the client there is, or raise.
FallBack == IF client = 0 THEN client' = 0 /\ served' = 0
            ELSE client' = client /\ served' = client

\* _get_client.
GetClient ==
    /\ IF client # 0 /\ ~rotation
       THEN served' = client /\ UNCHANGED <<client, rotation, stale>>
       ELSE IF Buildable
       THEN /\ stale' = IF client = 0 THEN stale ELSE stale \cup {client}
            /\ client' = envKey /\ served' = envKey
            /\ rotation' = FALSE
       ELSE /\ FallBack
            /\ rotation' = (client = 0 /\ rotation)
            /\ UNCHANGED stale
    /\ UNCHANGED <<keyFile, noticed, envKey, shut>>

\* _close_client, at shutdown.
CloseClient ==
    /\ ~shut /\ shut' = TRUE
    /\ client' = 0 /\ rotation' = FALSE /\ stale' = {}
    /\ UNCHANGED <<keyFile, noticed, envKey, served>>

Request == ~shut /\ GetClient

RotNext ==
    \/ WriteKey
    \/ \E b \in BOOLEAN : Watch(b)
    \/ Request
    \/ CloseClient

\* The watcher's loop runs, and requests keep coming.
RotFairness == WF_rotvars(Watch(TRUE)) /\ WF_rotvars(Request)

RotSpec == RotInit /\ [][RotNext]_rotvars /\ RotFairness

RotTypeOK ==
    /\ keyFile \in 0..MaxKey /\ envKey \in 0..MaxKey /\ client \in 0..MaxKey
    /\ stale \subseteq 1..MaxKey /\ served \in 0..MaxKey

\* Once a client has served a request, a failing rotation never leaves the
\* backend without one: requests go on under the previous key.
KeepsServing == [][~shut /\ served # 0 => served' # 0]_rotvars

\* A good key that stays in the file is the one in use in the end.
NewKeyTaken ==
    \A k \in 1..MaxKey \ BadKeys :
        <>[](keyFile = k /\ ~shut) => <>[](client = k)

=============================================================================
