------------------------------- MODULE Startup -------------------------------
(***************************************************************************)
(* From the command line to the event loop: parse_config in config.rs, the *)
(* binding of the sockets in the order of main_loop, and set_user.  What   *)
(* the Server module takes for given, its sockets and its addresses, is    *)
(* decided here.                                                           *)
(*                                                                         *)
(* An address has a family and a kind; its port is left out, as are the    *)
(* spellings of flags and levels.  An option is told by where it is from.  *)
(***************************************************************************)
EXTENDS Naturals, Sequences

CONSTANTS
  Addresses,    \* the addresses that occur: [ip, family, kind]
  AddrLists,    \* the lists given to --dns-addr, in which Garbage may occur
  EnvAddrs,     \* what the two variables for addresses may hold
  DEFAULT_ADDR_V4, DEFAULT_ADDR_V6,
  Garbage,      \* no address
  None,
  MAX_ARGS      \* how many arguments are given

ASSUME StartupAssumption ==
  /\ \A a \in Addresses : /\ a.family \in {"v4", "v6"}
                          /\ a.kind \in {"unspecified", "private", "public"}
  /\ Garbage \notin Addresses /\ None \notin Addresses
  /\ EnvAddrs \subseteq Addresses \cup {None}
  /\ \A l \in AddrLists : l \in Seq(Addresses \cup {Garbage})
  /\ {DEFAULT_ADDR_V4, DEFAULT_ADDR_V6} \subseteq Addresses
  /\ DEFAULT_ADDR_V4.family = "v4" /\ DEFAULT_ADDR_V6.family = "v6"
  /\ DEFAULT_ADDR_V4.kind # "private"
  /\ MAX_ARGS \in Nat

\* The default for IPv6 is ::, as in a release build; in a debug build it is ::1.
ASSUME ReleaseBuild == DEFAULT_ADDR_V6.kind = "unspecified"

\* The options with a value of their own.
Options == {"http_port", "loglevel", "logformat", "username"}

VARIABLES
  config,   \* the Config being filled in: dns_addr_4, dns_addr_6, require_v6,
            \* server_ips, and where each option is from
  phase,    \* what is done next
  args,     \* how many arguments have been read
  given,    \* history: the addresses given as arguments, and whether alone
  flags,    \* history: the options given as arguments
  bound,    \* the sockets that are bound: the address of each, or None
  root,     \* the process was started by the superuser
  uid       \* whom it runs as

vars == <<config, phase, args, given, flags, bound, root, uid>>

Phases == {"arguments", "tcp", "udp4", "udp6", "user", "serving", "exited"}

\* The config that parse_config begins with.  A variable that cannot be parsed
\* counts as unset, one that holds several addresses included.
Init ==
  /\ \E four, six \in EnvAddrs, from \in [Options -> {"env", "default"}] :
       config = [dns_addr_4 |-> four, dns_addr_6 |-> six, require_v6 |-> TRUE,
                 server_v4 |-> None, server_v6 |-> None, options |-> from]
  /\ phase = "arguments"
  /\ args = 0
  /\ given = {}
  /\ flags = {}
  /\ bound = [tcp |-> FALSE, udp4 |-> None, udp6 |-> None]
  /\ root \in BOOLEAN
  /\ uid = IF root THEN "superuser" ELSE "somebody"

-----------------------------------------------------------------------------
(* The loop over the arguments.                                            *)

Argument ==
  /\ phase = "arguments"
  /\ args < MAX_ARGS
  /\ args' = args + 1
  /\ UNCHANGED <<bound, root, uid>>

\* An error that main reports before it exits, or a call for help.
Exits == phase' = "exited" /\ UNCHANGED <<config, given, flags>>

\* Mutant of SetOption: what the environment says stays.
SetOptionOnce ==
  /\ Argument
  /\ \E o \in Options :
       /\ config' = [config EXCEPT !.options[o] = IF @ = "default" THEN "argument" ELSE @]
       /\ flags' = flags \cup {o}
  /\ UNCHANGED <<phase, given>>

\* An option with a value that can be parsed.
SetOption ==
  /\ Argument
  /\ \E o \in Options :
       /\ config' = [config EXCEPT !.options[o] = "argument"]
       /\ flags' = flags \cup {o}
  /\ UNCHANGED <<phase, given>>

\* The value is missing or cannot be parsed, or -h is found.
BadArgument == Argument /\ Exits

\* Mutant of parse_addrs: two addresses are not many.
ParseAddrsOfTwo(l) ==
  {k \in DOMAIN l : Len(l) > 2 => l[k].family = "v6" \/ l[k].kind # "private"}

\* Where in l the addresses are that are kept: of more than one address, the
\* private ones of IPv4 are left out.
parse_addrs(l) ==
  {k \in DOMAIN l : Len(l) > 1 => l[k].family = "v6" \/ l[k].kind # "private"}

\* The last address of a family that is kept, or what was there before: the only
\* member of this set.
LastOf(l, family, before) ==
  LET those == {k \in parse_addrs(l) : l[k].family = family}
  IN IF those = {} THEN {before} ELSE {l[k] : k \in {k \in those : \A j \in those : j <= k}}

IsAddrList(l) == \A k \in DOMAIN l : l[k] # Garbage

SetAddrs ==
  /\ Argument
  /\ \E l \in AddrLists :
       /\ IsAddrList(l)
       /\ parse_addrs(l) # {}
       /\ \E four \in LastOf(l, "v4", config.dns_addr_4), six \in LastOf(l, "v6", config.dns_addr_6) :
            config' = [config EXCEPT !.dns_addr_4 = four, !.dns_addr_6 = six]
       /\ given' = given \cup {[addr |-> l[k], alone |-> Len(l) = 1] : k \in DOMAIN l}
  /\ UNCHANGED <<phase, flags>>

\* InvalidAddr, or UnsupportedAddrs.
BadAddrs ==
  /\ Argument
  /\ \E l \in AddrLists : IsAddrList(l) => parse_addrs(l) = {}
  /\ Exits

-----------------------------------------------------------------------------

Unset == config.dns_addr_4 = None /\ config.dns_addr_6 = None

\* Mutant of require_v6: a v6 socket is never required.
RequireNever == FALSE

\* Whether it is an error if the v6 socket cannot be bound.
require_v6 == ~Unset

\* Mutant of Advertised: any address is told.
AdvertisedAny(addr, family) == IF addr # None /\ addr.family = family THEN addr ELSE None

\* The address that is told to those who ask, if it has the family of its slot.
Advertised(addr, family) ==
  IF addr # None /\ addr.family = family /\ addr.kind # "unspecified" THEN addr ELSE None

\* No argument is left.
Parsed ==
  /\ phase = "arguments"
  /\ LET four == IF Unset THEN DEFAULT_ADDR_V4 ELSE config.dns_addr_4
         six == IF Unset THEN DEFAULT_ADDR_V6 ELSE config.dns_addr_6
     IN config' = [config EXCEPT !.dns_addr_4 = four, !.dns_addr_6 = six,
                                 !.require_v6 = require_v6,
                                 !.server_v4 = Advertised(four, "v4"),
                                 !.server_v6 = Advertised(six, "v6")]
  /\ phase' = "tcp"
  /\ UNCHANGED <<args, given, flags, bound, root, uid>>

-----------------------------------------------------------------------------
(* main_loop, up to the loop.                                              *)

Goes(to) == phase' = to /\ UNCHANGED <<config, args, given, flags, root>>

BindTcp ==
  /\ phase = "tcp"
  /\ bound' = [bound EXCEPT !.tcp = TRUE]
  /\ Goes("udp4")
  /\ UNCHANGED uid

\* bind_udp_socket succeeds, has nothing to bind, or fails where it may.
bind_udp_socket(addr, required) == {addr} \cup (IF required THEN {} ELSE {None})

BindUdp4 ==
  /\ phase = "udp4"
  /\ \E s \in bind_udp_socket(config.dns_addr_4, TRUE) : bound' = [bound EXCEPT !.udp4 = s]
  /\ Goes("udp6")
  /\ UNCHANGED uid

\* Mutant of BindUdp6: it is given the other address.
BindUdp6Copied ==
  /\ phase = "udp6"
  /\ \E s \in bind_udp_socket(config.dns_addr_4, config.require_v6) :
       bound' = [bound EXCEPT !.udp6 = s]
  /\ Goes("user")
  /\ UNCHANGED uid

BindUdp6 ==
  /\ phase = "udp6"
  /\ \E s \in bind_udp_socket(config.dns_addr_6, config.require_v6) :
       bound' = [bound EXCEPT !.udp6 = s]
  /\ Goes("user")
  /\ UNCHANGED uid

\* A socket that is required cannot be bound or registered, or set_user finds a
\* name that is not one, no such user, or setuid fails.
Fails ==
  /\ \/ phase = "tcp"
     \/ phase = "udp4" /\ config.dns_addr_4 # None
     \/ phase = "udp6" /\ config.dns_addr_6 # None /\ config.require_v6
     \/ phase = "user"
  /\ Goes("exited")
  /\ UNCHANGED <<bound, uid>>

\* Only the superuser changes, and only if a user is configured.
set_user ==
  /\ phase = "user"
  /\ uid' = IF root /\ config.options["username"] # "default" THEN "username" ELSE uid
  /\ Goes("serving")
  /\ UNCHANGED bound

\* The process has ended, or is in the loop for good.
Settled == phase \in {"serving", "exited"} /\ UNCHANGED vars

Next ==
  \/ SetOption
  \/ BadArgument
  \/ SetAddrs
  \/ BadAddrs
  \/ Parsed
  \/ BindTcp
  \/ BindUdp4
  \/ BindUdp6
  \/ Fails
  \/ set_user
  \/ Settled

Spec == Init /\ [][Next]_vars

-----------------------------------------------------------------------------
(* Properties.                                                             *)

Serving == phase = "serving"
Listening == {bound.udp4, bound.udp6} \ {None}

\* The shape of the state; what is bound is what was configured.
TypeOK ==
  /\ phase \in Phases
  /\ args \in 0..MAX_ARGS
  /\ bound.udp4 \in {None, config.dns_addr_4}
  /\ bound.udp6 \in {None, config.dns_addr_6}
  /\ config.options \in [Options -> {"default", "env", "argument"}]
  /\ uid \in {"superuser", "somebody", "username"}

\* A server that runs has a socket for DNS, and one for every address it was
\* told to listen on: only the default for IPv6 may be lacking, and only if no
\* address was given (main.rs:57-58, config.rs:208-212).  If the superuser
\* started it with a user to run as, it runs as that user (README, "change
\* process ownership to this user").
RunsAsConfigured ==
  Serving =>
    /\ bound.tcp
    /\ Listening # {}
    /\ \A a \in {config.dns_addr_4, config.dns_addr_6} \ {None} :
         a \in Listening \/ (a = DEFAULT_ADDR_V6 /\ given = {})
    /\ root /\ config.options["username"] # "default" => uid = "username"

\* The address in the socket that is meant for its family, or None.
InPlace(addr, family) == IF addr # None /\ addr.family = family THEN addr ELSE None
ListeningInPlace == {InPlace(bound.udp4, "v4"), InPlace(bound.udp6, "v6")} \ {None}

\* What is told to those who ask for A or AAAA is an address that is listened
\* on, and a specified one; and every such address is told if it is in the
\* socket for its family (config.rs:214-228).
AdvertisedIsBound ==
  Serving =>
    {config.server_v4, config.server_v6} \ {None}
      = {a \in ListeningInPlace : a.kind # "unspecified"}

\* An argument has precedence over the environment (README, "Arguments take
\* precedence"): an option is from the command line if it is there, and so is
\* the address in the socket for its family if some argument is a single
\* address of that family, whatever lists come before or after it.
ArgumentsTakePrecedence ==
  /\ phase # "exited" => \A o \in flags : config.options[o] = "argument"
  /\ Serving =>
       \A g \in given, a \in ListeningInPlace :
         g.alone /\ g.addr.family = a.family => \E h \in given : h.addr = a

\* A private address of IPv4 is listened on only if the environment says so or
\* an argument has it alone, never as part of a list (config.rs:243-247).
PrivateOnlyAlone ==
  \A a \in Listening :
    a.family = "v4" /\ a.kind = "private" =>
      a \in EnvAddrs \/ [addr |-> a, alone |-> TRUE] \in given
=============================================================================
