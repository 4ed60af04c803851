---------------------------- MODULE SetupConfig ----------------------------
(***************************************************************************)
(* The configuration of FOCAS2 machines: the setup routes that change it   *)
(* (web/routes/setup.py), the threads in which they save it (config.py),   *)
(* and the process that reads it when it starts, composed with the         *)
(* connector that uses it.                                                 *)
(*                                                                         *)
(* A route's handler runs to its await, save_config in a thread, then the  *)
(* rest.  The thread takes a copy of the configuration, truncates the file *)
(* and writes the copy; nothing keeps two of them apart.  A file is what   *)
(* can be read from it: a whole configuration, nothing, or garbage.        *)
(***************************************************************************)
EXTENDS FocasConnector, FiniteSets

CONSTANTS
    MaxRequests,     \* bound: requests to add or remove a machine
    InitialConfigs,  \* what the file may hold at first
    MaxCrashes       \* bound: kills of the process

\* In the order in which they are received.
Requests == 1..MaxRequests

VARIABLES
    pc,        \* how far each request has come
    adds,      \* the requests that add
    entry,     \* what they add, or remove by its id
    data,      \* the copy a thread saves
    file,      \* pcu20.toml
    crashes,   \* kills of the process so far
    stale,     \* history: the file need not be what memory holds
    unlisted   \* history: ids that need not be in the registry

requestVars == <<pc, adds, entry, data>>
fileVars == <<file, stale>>
vars == <<configVars, focasVars, requestVars, fileVars, crashes, unlisted>>

Config == [machines : Seq(Entry), enabled : BOOLEAN]

Current == [machines |-> list, enabled |-> enabled]

\* AppConfig()
Default == [machines |-> <<>>, enabled |-> FALSE]

\* A missing file is as good as an empty one.
Empty == [text |-> "empty", config |-> Default]
Torn  == [text |-> "torn", config |-> Default]
Whole(config) == [text |-> "whole", config |-> config]

\*   none     not received       write  the file is truncated
\*   queued   job submitted      saved  the thread has returned
\*   open     copy taken         done
PCs == {"none", "queued", "open", "write", "saved", "done"}

ASSUME SetupAssumption ==
    /\ Ids # {}
    /\ Hosts # {}
    /\ InitialConfigs \subseteq Config
    /\ MaxRequests \in Nat
    /\ MaxCrashes \in Nat

AnyEntry == CHOOSE e \in Entry : TRUE

TypeOK ==
    /\ ConnectorTypeOK
    /\ pc \in [Requests -> PCs]
    /\ adds \subseteq Requests
    /\ entry \in [Requests -> Entry]
    /\ data \in [Requests -> Config]
    /\ file \in [text : {"empty", "whole", "torn"}, config : Config]
    /\ crashes \in Nat
    /\ stale \in BOOLEAN
    /\ unlisted \subseteq Ids

\* The ids that start() leaves alone.
NotStarted(config) ==
    IF config.enabled
    THEN {e.id : e \in {config.machines[i] :
                        i \in {j \in 1..Len(config.machines) :
                               ~ config.machines[j].enabled}}}
    ELSE IdsOf(config.machines)

Init ==
    /\ \E config \in InitialConfigs :
          /\ file = IF config = Default THEN Empty ELSE Whole(config)
          /\ list = config.machines
          /\ enabled = config.enabled
          /\ unlisted = NotStarted(config)
    /\ ConnectorInit
    /\ pc = [r \in Requests |-> "none"]
    /\ adds = {}
    /\ entry = [r \in Requests |-> AnyEntry]
    /\ data = [r \in Requests |-> Default]
    /\ crashes = 0
    /\ stale = FALSE

-----------------------------------------------------------------------------
(* The routes                                                              *)

Goto(r, l) == pc' = [pc EXCEPT ![r] = l]

NextRequest(r) ==
    /\ pc[r] = "none"
    /\ \A q \in Requests : q < r => pc[q] # "none"

\* The request is over and its variables are forgotten.
End(r) ==
    /\ Goto(r, "done")
    /\ adds' = adds \ {r}
    /\ entry' = [entry EXCEPT ![r] = AnyEntry]
    /\ data' = [data EXCEPT ![r] = Default]

EndAll ==
    /\ pc' = [r \in Requests |-> IF pc[r] = "none" THEN "none" ELSE "done"]
    /\ adds' = {}
    /\ entry' = [r \in Requests |-> AnyEntry]
    /\ data' = [r \in Requests |-> Default]

\* The web server runs from the end of start_all to the end of stop_all.
Serving == app \notin {"starting", "connecting", "down"}

\* Some thread has its copy already and will write it.
Saving == \E r \in Requests : pc[r] \in {"open", "write"}

\* api_add_machine up to its await.  A second machine with that id is
\* refused with 409, and nothing changes.
Add(r, id, host) ==
    LET new == [id |-> id, host |-> host, enabled |-> TRUE]
    IN  /\ Serving
        /\ NextRequest(r)
        /\ id \notin IdsOf(list)
        /\ list' = Append(list, new)
        /\ enabled' = TRUE
        /\ adds' = adds \cup {r}
        /\ entry' = [entry EXCEPT ![r] = new]
        /\ stale' = (stale \/ Saving)
        /\ Goto(r, "queued")
        /\ UNCHANGED <<focasVars, data, file, crashes, unlisted>>

\* The positions of K in their order.
InOrder(K) ==
    {h \in [1..Cardinality(K) -> K] :
        \A i, j \in DOMAIN h : i < j => h[i] < h[j]}

\* The machines other than id, in their order.
Without(id) ==
    {[i \in DOMAIN h |-> list[h[i]]] :
        h \in InOrder({i \in 1..Len(list) : list[i].id # id})}

\* Mutant: there is nothing to save when no machine is left.
RemoveLastUnsaved(r, id) ==
    /\ Serving
    /\ NextRequest(r)
    /\ id \in IdsOf(list)
    /\ list' \in Without(id)
    /\ enabled' = (enabled /\ list' # <<>>)
    /\ stale' = (stale \/ Saving)
    /\ Goto(r, IF list' = <<>> THEN "done" ELSE "queued")
    /\ UNCHANGED <<focasVars, adds, entry, data, file, crashes, unlisted>>

\* api_remove_machine up to its await.  An unknown id is refused with 404.
\* Neither the connector nor the registry is told.
Remove(r, id) ==
    /\ Serving
    /\ NextRequest(r)
    /\ id \in IdsOf(list)
    /\ list' \in Without(id)
    /\ enabled' = (enabled /\ list' # <<>>)
    /\ stale' = (stale \/ Saving)
    /\ Goto(r, "queued")
    /\ UNCHANGED <<focasVars, adds, entry, data, file, crashes, unlisted>>

\* Mutant: registered only if the connector polls.
ReplyIfPolling(r) ==
    /\ app # "down"
    /\ pc[r] = "saved"
    /\ machines' = IF r \in adds /\ poller # "none"
                   THEN RegisterConfigured(machines, entry[r].id, entry[r].host)
                   ELSE machines
    /\ End(r)
    /\ UNCHANGED <<configVars, app, at, clients, poller, todo, last, fileVars,
                   crashes, unlisted>>

\* The rest of the handler: a machine that was added is registered.
Reply(r) ==
    /\ app # "down"
    /\ pc[r] = "saved"
    /\ machines' = IF r \in adds
                   THEN RegisterConfigured(machines, entry[r].id, entry[r].host)
                   ELSE machines
    /\ End(r)
    /\ UNCHANGED <<configVars, app, at, clients, poller, todo, last, fileVars,
                   crashes, unlisted>>

-----------------------------------------------------------------------------
(* save_config, in a thread                                                *)

\* config.model_dump.  With no other copy about, what this thread takes is
\* what will be in the file.
TakeCopy(r) ==
    /\ pc[r] = "queued"
    /\ data' = [data EXCEPT ![r] = Current]
    /\ stale' = (stale /\ Saving)
    /\ Goto(r, "open")
    /\ UNCHANGED <<configVars, focasVars, adds, entry, file, crashes, unlisted>>

Truncate(r) ==
    /\ pc[r] = "open"
    /\ file' = Empty
    /\ Goto(r, "write")
    /\ UNCHANGED <<configVars, focasVars, adds, entry, data, stale, crashes,
                   unlisted>>

\* What a write over the file's text leaves, from its beginning on.  Over the
\* text of another copy the end of that may be left.
Overwritten(config) ==
    IF file \in {Empty, Whole(config)} THEN {Whole(config)}
    ELSE IF file.text = "whole"
            /\ Len(config.machines) < Len(file.config.machines) THEN {Torn}
    ELSE {Whole(config), Torn}

\* tomli_w.dump and the file's close.
Write(r) ==
    /\ pc[r] = "write"
    /\ file' \in Overwritten(data[r])
    /\ Goto(r, "saved")
    /\ UNCHANGED <<configVars, focasVars, adds, entry, data, stale, crashes,
                   unlisted>>

\* Opening or writing raises: the request ends with an error, the change it
\* made stays, and a machine that was added is not registered.
SaveFails(r) ==
    /\ \/ pc[r] = "open" /\ file' = file
       \/ pc[r] = "write" /\ file' \in {file, Torn}
    /\ stale' = TRUE
    /\ unlisted' = IF r \in adds THEN unlisted \cup {entry[r].id} ELSE unlisted
    /\ End(r)
    /\ UNCHANGED <<configVars, focasVars, crashes>>

-----------------------------------------------------------------------------
(* The process                                                             *)

\* asyncio.run cancels a request whose job no thread has taken yet.
Dropped(r) ==
    /\ app = "down"
    /\ pc[r] = "queued"
    /\ stale' = TRUE
    /\ End(r)
    /\ UNCHANGED <<configVars, focasVars, file, crashes, unlisted>>

\* The process is killed, perhaps while it writes the file.
Crash ==
    /\ crashes < MaxCrashes
    /\ crashes' = crashes + 1
    /\ Forget("down")
    /\ \/ file' = file
       \/ file' = Torn /\ \E r \in Requests : pc[r] = "write"
    /\ EndAll
    /\ UNCHANGED <<configVars, stale, unlisted>>

\* A new process reads the file; it does not start with a torn one.
Restart ==
    /\ app = "down"
    /\ \A r \in Requests : pc[r] \notin {"queued", "open", "write"}
    /\ file.text # "torn"
    /\ Forget(FirstPhase(file.config.machines, file.config.enabled))
    /\ list' = file.config.machines
    /\ enabled' = file.config.enabled
    /\ EndAll
    /\ stale' = FALSE
    /\ unlisted' = NotStarted(file.config)
    /\ UNCHANGED <<file, crashes>>

\* A user has to repair the file.
AtRest ==
    /\ app = "down"
    /\ file.text = "torn"
    /\ UNCHANGED vars

Request(r) ==
    \/ Reply(r) \/ TakeCopy(r) \/ Truncate(r) \/ Write(r) \/ SaveFails(r)
    \/ Dropped(r)

Next ==
    \/ ConnectorNext /\ UNCHANGED <<requestVars, fileVars, crashes, unlisted>>
    \/ \E r \in Requests :
          \/ Request(r)
          \/ \E id \in Ids :
                Remove(r, id) \/ \E host \in Hosts : Add(r, id, host)
    \/ Crash \/ Restart \/ AtRest

Spec == Init /\ [][Next]_vars

\* The event loop runs start() and stop(), and their threads return.
Fairness ==
    WF_vars((Starting \/ Stopping)
            /\ UNCHANGED <<requestVars, fileVars, crashes, unlisted>>)

FairSpec == Spec /\ Fairness

-----------------------------------------------------------------------------
(* Properties                                                              *)

\* While the process lives, the file holds the configuration in memory
\* whenever nothing remains to be saved, however many saves have overlapped:
\* unless one of them raised, or the configuration was changed when another
\* had its copy already and no save has run alone since.
FileAgrees ==
    \/ app = "down"
    \/ stale
    \/ \E r \in Requests : pc[r] \in {"queued", "open", "write"}
    \/ file.text # "torn" /\ file.config = Current

\* Every configured machine is in the registry once start() is over, if it
\* is one that start() looks at or was added without an error, however adds,
\* removals and restarts interleave.
ConfiguredListed ==
    \A id \in IdsOf(list) :
        \/ app \in {"starting", "connecting", "down"}
        \/ id \in unlisted
        \/ \E r \in adds : entry[r].id = id
                           /\ pc[r] \in {"queued", "open", "write", "saved"}
        \/ id \in DOMAIN machines
=============================================================================
