-------------------------------- MODULE System --------------------------------
(***************************************************************************)
(* The server together with the plugin that uses it: the plugin is the     *)
(* only client of the HTTP listener, gives every request up after a        *)
(* timeout, and is run again and again.  What a request that was given up  *)
(* has done, or will still do, the plugin does not learn.                  *)
(***************************************************************************)
EXTENDS Server

CONSTANTS Orders  \* see Plugin

VARIABLES
  phase, order, todo, call, reply, confirmed, deleted, toredown,  \* Plugin
  restarted  \* history: the server has ended since this run of certbot began

Plugin == INSTANCE Plugin

plugin == <<phase, order, todo, call, reply, confirmed, deleted, toredown>>
sysvars == <<vars, plugin, restarted>>

\* A challenge of an order is registered under the strings it has; the list
\* has room for those of one run.  No response is no error.
ASSUME OrdersAssumption ==
  /\ Orders \subseteq Seq([domain : RawDomains, name : RawNames, value : Values])
  /\ \A o \in Orders :
       /\ Len(o) \in 1..MAX_LEN
       /\ \A k \in DOMAIN o : challenge_from_req(o[k]) = o[k]
  /\ Cardinality(Conns) > BACKLOG
  /\ None \notin {"ConnectionError", "TimeoutError"}

-----------------------------------------------------------------------------

\* The server or its kernel moves.  If it lets go of the plugin's connection,
\* the plugin finds a status code there or a connection that was reset.
ServerMoves ==
  /\ Step \/ Failure
  /\ reply' = IF call # None /\ conn[call] # Idle /\ conn'[call] = Idle
              THEN IF status' = None THEN "ConnectionError" ELSE status'
              ELSE reply
  /\ restarted' = (restarted \/ (Bound /\ pc' = "down"))
  /\ UNCHANGED <<phase, order, todo, call, confirmed, deleted, toredown>>

\* The plugin moves on its own.
Begins == Plugin!perform /\ restarted' = FALSE /\ UNCHANGED vars

Proceeds ==
  /\ \/ Plugin!Performed
     \/ Plugin!cleanup
     \/ Plugin!Teardown
     \/ Plugin!Return
  /\ UNCHANGED <<vars, restarted>>

Connects ==
  /\ Plugin!Calling
  /\ \E c \in Conns :
       /\ Connect(c)
       /\ conn'[c].req = Plugin!Request
       /\ Plugin!Connects(c)
  /\ UNCHANGED restarted

\* Nobody listens.
Refused ==
  /\ Plugin!Calling
  /\ ~Bound
  /\ Plugin!Outcome("ConnectionError")
  /\ UNCHANGED <<vars, restarted>>

\* The accept queue is full, and stays so for five seconds.
ConnectTimesOut ==
  /\ Plugin!Calling
  /\ Len(backlog) = BACKLOG
  /\ Plugin!Outcome("TimeoutError")
  /\ UNCHANGED <<vars, restarted>>

Sends ==
  /\ call # None
  /\ Send(call)
  /\ UNCHANGED <<plugin, restarted>>

\* Mutant of RequestTimesOut: there is no limit to the wait for the response.
RequestTimesOutSending ==
  /\ call # None
  /\ reply = None
  /\ conn[call].sent # "all"
  /\ HangUp(call)
  /\ Plugin!Outcome("TimeoutError")
  /\ UNCHANGED restarted

\* No response for five seconds: the plugin closes the connection, which may
\* still wait to be accepted, with the request on it.
RequestTimesOut ==
  /\ call # None
  /\ reply = None
  /\ HangUp(call)
  /\ Plugin!Outcome("TimeoutError")
  /\ UNCHANGED restarted

GetsReply ==
  /\ reply # None
  /\ Plugin!Outcome(reply)
  /\ UNCHANGED <<vars, restarted>>

-----------------------------------------------------------------------------

SysInit == Init /\ Plugin!Init /\ restarted = FALSE

PluginMoves ==
  \/ Proceeds
  \/ Connects
  \/ Refused
  \/ ConnectTimesOut
  \/ Sends
  \/ RequestTimesOut
  \/ GetsReply

Waits == Tick /\ UNCHANGED <<plugin, restarted>>

SysNext == ServerMoves \/ Begins \/ PluginMoves \/ Waits

SysSpec == SysInit /\ [][SysNext]_sysvars

-----------------------------------------------------------------------------
(* Properties.                                                             *)

SysTypeOK == TypeOK /\ Plugin!TypeOK /\ call \in Conns \cup {None}

InList(c) == \E i \in DOMAIN list : list[i] = c

\* From the moment its POST is answered until certbot begins to clean up, a
\* challenge is in the list, ready for its validation, unless the server was
\* started again in between (champ.py:46-57): neither requests of this run, nor
\* of an earlier run that were given up and are handled late, take it away.
ConfirmedIsRegistered ==
  phase \in {"perform", "issued"} /\ ~restarted => \A c \in confirmed : InList(c)

\* A challenge whose DELETE was answered with 204 stays away until certbot runs
\* again (champ.py:64-76): though its POST may have been given up after five
\* seconds and be handled only then, it is handled before the DELETE.
DeletedStaysAway == \A c \in deleted : ~InList(c)

\* When certbot is done, the teardown script has been run (champ.py:28, "a shell
\* script to run after performing authentication").
TeardownIsRun == phase = "ended" => toredown

-----------------------------------------------------------------------------

\* Each request is over after its timeout, whatever the server does.
PluginSpec == SysSpec /\ WF_sysvars(PluginMoves)

\* So a run of certbot always comes to its end (champ.py:49, 67), also when the
\* server never gets round to its requests.
RunsEnd == (phase # "idle") ~> (phase = "idle")
=============================================================================
