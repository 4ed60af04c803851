----------------------------- MODULE FileService -----------------------------
(***************************************************************************)
(* What the inbound file server promises, without sockets, frames, tasks   *)
(* or threads: a client is let in, may log in, and the service works for   *)
(* it on one file operation at a time.  An operation starts only for a     *)
(* client that is logged in, and a client that is gone never comes back.   *)
(***************************************************************************)
EXTENDS Naturals

CONSTANT Clients

VARIABLES phase,   \* absent, open, authed or gone
          busy,    \* the clients whose file operation is under way
          moved    \* per client, the files moved for it

fsVars == <<phase, busy, moved>>

FSTypeOK ==
    /\ phase \in [Clients -> {"absent", "open", "authed", "gone"}]
    /\ busy \subseteq Clients
    /\ moved \in [Clients -> Nat]

FSInit ==
    /\ phase = [c \in Clients |-> "absent"]
    /\ busy = {}
    /\ moved = [c \in Clients |-> 0]

Become(c, p) == phase' = [phase EXCEPT ![c] = p]

Open(c) ==
    /\ phase[c] = "absent"
    /\ Become(c, "open")
    /\ UNCHANGED <<busy, moved>>

Login(c) ==
    /\ phase[c] = "open"
    /\ c \notin busy
    /\ Become(c, "authed")
    /\ UNCHANGED <<busy, moved>>

Logout(c) ==
    /\ phase[c] = "authed"
    /\ c \notin busy
    /\ Become(c, "open")
    /\ UNCHANGED <<busy, moved>>

\* The service withdraws every login at once; work under way goes on.
LogoutAll ==
    /\ \E c \in Clients : phase[c] = "authed"
    /\ phase' = [c \in Clients |->
                    IF phase[c] = "authed" THEN "open" ELSE phase[c]]
    /\ UNCHANGED <<busy, moved>>

StartWork(c) ==
    /\ phase[c] = "authed"
    /\ c \notin busy
    /\ busy' = busy \cup {c}
    /\ UNCHANGED <<phase, moved>>

\* The work's one effect on the count of files moved comes at most once.
EndWork(c, n) ==
    /\ c \in busy
    /\ busy' = busy \ {c}
    /\ moved' = [moved EXCEPT ![c] = @ + n]
    /\ UNCHANGED phase

\* The client leaves, in the middle of its work or not.
Depart(c) ==
    /\ phase[c] # "gone"
    /\ Become(c, "gone")
    /\ busy' = busy \ {c}
    /\ UNCHANGED moved

FSNext ==
    \/ \E c \in Clients :
          Open(c) \/ Login(c) \/ Logout(c) \/ StartWork(c) \/ Depart(c)
    \/ \E c \in Clients, n \in 0..1 : EndWork(c, n)
    \/ LogoutAll

FSSpec == FSInit /\ [][FSNext]_fsVars
=============================================================================
