--------------------------- MODULE MachineRegistry ---------------------------
(***************************************************************************)
(* The table of known CNC machines (machines/registry.py and models.py),   *)
(* as operators on its value.  A table is a function whose domain is the   *)
(* set of machine ids seen so far; every component that reports a machine  *)
(* (the PCU20 server, the FOCAS2 connector, the setup routes) applies      *)
(* these operators inside its own actions.                                 *)
(* Timestamps, display names and the live CNC read-outs carry no control   *)
(* and are left out.                                                       *)
(***************************************************************************)
EXTENDS Naturals

CONSTANT NoSession   \* current_session_id = None

\* A record of Machine: fields ip, is_connected, current_session_id,
\* total_connections and total_files_transferred.
Machine(Ids, Sids) ==
    [ip          : Ids,
     connected   : BOOLEAN,
     session     : Sids \cup {NoSession},
     connections : Nat,
     files       : Nat]

NewMachine(ip) ==
    [ip |-> ip, connected |-> FALSE, session |-> NoSession,
     connections |-> 0, files |-> 0]

EmptyTable == [i \in {} |-> NewMachine(i)]

Store(table, mid, m) ==
    [i \in DOMAIN table \cup {mid} |-> IF i = mid THEN m ELSE table[i]]

\* on_connect: create the entry if it is missing, then mark it connected and
\* make the new session the current one.
OnConnect(table, mid, ip, sid) ==
    LET m == IF mid \in DOMAIN table THEN table[mid] ELSE NewMachine(ip)
    IN  Store(table, mid,
              [ip          |-> m.ip,
               connected   |-> TRUE,
               session     |-> sid,
               connections |-> m.connections + 1,
               files       |-> m.files])

\* on_disconnect: clears the flag and the current session whichever session
\* of that machine ended, and adds the session's counters to the totals.
OnDisconnect(table, mid, files) ==
    IF mid \in DOMAIN table
    THEN LET m == table[mid]
         IN  Store(table, mid,
                   [ip          |-> m.ip,
                    connected   |-> FALSE,
                    session     |-> NoSession,
                    connections |-> m.connections,
                    files       |-> m.files + files])
    ELSE table

\* register_configured: an entry that exists is kept as it is.
RegisterConfigured(table, mid, ip) ==
    IF mid \in DOMAIN table THEN table ELSE Store(table, mid, NewMachine(ip))

\* list_connected / connected_count: what the dashboard shows.
ListConnected(table) == {i \in DOMAIN table : table[i].connected}
=============================================================================
