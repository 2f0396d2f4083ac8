----------------------------- MODULE StartupProofs -----------------------------
(***************************************************************************)
(* What holds of a server that starts, for all addresses, variables and    *)
(* lists of addresses, and for any number of arguments in any order.       *)
(***************************************************************************)
EXTENDS Startup, TLAPS

Slot == Addresses \cup {None}

\* A config has these fields.
IsConfig(c) ==
  c = [dns_addr_4 |-> c.dns_addr_4, dns_addr_6 |-> c.dns_addr_6, require_v6 |-> c.require_v6,
       server_v4 |-> c.server_v4, server_v6 |-> c.server_v6, options |-> c.options]

IsBound(b) == b = [tcp |-> b.tcp, udp4 |-> b.udp4, udp6 |-> b.udp6]

\* The shape of the state.
Shape ==
  /\ IsConfig(config)
  /\ config.dns_addr_4 \in Slot
  /\ config.dns_addr_6 \in Slot
  /\ config.options \in [Options -> {"default", "env", "argument"}]
  /\ phase \in Phases
  /\ args \in 0..MAX_ARGS
  /\ given \subseteq [addr : Addresses, alone : BOOLEAN]
  /\ flags \subseteq Options
  /\ IsBound(bound)
  /\ uid \in {"superuser", "somebody", "username"}

\* None is no address, and the default addresses are.
LEMMA Addrs ==
  /\ None \notin Addresses /\ Garbage \notin Addresses
  /\ EnvAddrs \subseteq Slot
  /\ DEFAULT_ADDR_V4 \in Addresses /\ DEFAULT_ADDR_V6 \in Addresses
  /\ DEFAULT_ADDR_V4 # None /\ DEFAULT_ADDR_V6 # None
BY StartupAssumption DEF Slot

\* What parse_addrs keeps is an address of the list.
LEMMA KeptAddr ==
  ASSUME NEW l \in AddrLists, IsAddrList(l), NEW k \in DOMAIN l
  PROVE  l[k] \in Addresses /\ l[k].family \in {"v4", "v6"}
<1>1. l \in Seq(Addresses \cup {Garbage})
  BY StartupAssumption
<1>2. l[k] \in Addresses \cup {Garbage} /\ l[k] # Garbage
  BY <1>1 DEF IsAddrList
<1> QED
  BY <1>2, StartupAssumption

\* An address that SetAddrs puts in the slot of a family is what was there, and
\* then the list keeps none of the family, or one of those it keeps.
LEMMA LastKept ==
  ASSUME NEW l \in AddrLists, IsAddrList(l), NEW family, NEW before, NEW a \in LastOf(l, family, before)
  PROVE  \/ /\ a = before
            /\ \A k \in parse_addrs(l) : l[k].family # family
         \/ \E k \in parse_addrs(l) : a = l[k] /\ l[k].family = family
BY Zenon DEF LastOf

\* A field that is set leaves the others alone.
LEMMA OptionsAreSet ==
  ASSUME NEW c, NEW x, NEW d, IsConfig(c), d = [c EXCEPT !.options = x]
  PROVE  /\ IsConfig(d)
         /\ d.options = x
         /\ d.dns_addr_4 = c.dns_addr_4 /\ d.dns_addr_6 = c.dns_addr_6
         /\ d.server_v4 = c.server_v4 /\ d.server_v6 = c.server_v6
         /\ d.require_v6 = c.require_v6
BY DEF IsConfig

-----------------------------------------------------------------------------
(* What the actions do to the configuration.                               *)

\* An option changes itself alone.
LEMMA OptionSteps ==
  ASSUME Shape, SetOption
  PROVE  /\ phase = "arguments" /\ UNCHANGED <<phase, given, bound, root, uid>>
         /\ args' \in 0..MAX_ARGS
         /\ IsConfig(config')
         /\ config'.dns_addr_4 = config.dns_addr_4 /\ config'.dns_addr_6 = config.dns_addr_6
         /\ config'.server_v4 = config.server_v4 /\ config'.server_v6 = config.server_v6
         /\ config'.require_v6 = config.require_v6
         /\ \E o \in Options : /\ config'.options = [config.options EXCEPT ![o] = "argument"]
                               /\ flags' = flags \cup {o}
<1>1. /\ phase = "arguments" /\ UNCHANGED <<phase, given, bound, root, uid>>
      /\ args < MAX_ARGS /\ args' = args + 1
  BY DEF SetOption, Argument
<1>2. args' \in 0..MAX_ARGS
  BY <1>1, StartupAssumption DEF Shape
<1>3. PICK o \in Options :
         /\ config' = [config EXCEPT !.options[o] = "argument"]
         /\ flags' = flags \cup {o}
  BY DEF SetOption
<1> DEFINE x == [config.options EXCEPT ![o] = "argument"]
<1>4. config' = [config EXCEPT !.options = x] /\ IsConfig(config)
  BY <1>3 DEF Shape
<1> HIDE DEF x
<1>5. /\ IsConfig(config')
      /\ config'.options = x
      /\ config'.dns_addr_4 = config.dns_addr_4 /\ config'.dns_addr_6 = config.dns_addr_6
      /\ config'.server_v4 = config.server_v4 /\ config'.server_v6 = config.server_v6
      /\ config'.require_v6 = config.require_v6
  BY <1>4, OptionsAreSet
<1>6. \E p \in Options : /\ config'.options = [config.options EXCEPT ![p] = "argument"]
                         /\ flags' = flags \cup {p}
  BY <1>3, <1>5, Zenon DEF x
<1> QED
  BY <1>1, <1>2, <1>5, <1>6

\* The addresses of a list that are kept, and what is remembered of it.
Kept(l) == {l[k] : k \in parse_addrs(l)}
Given(l) == {[addr |-> l[k], alone |-> Len(l) = 1] : k \in DOMAIN l}

\* A list of addresses changes the two slots alone, each to one of its addresses.
LEMMA AddrSteps ==
  ASSUME Shape, SetAddrs
  PROVE  /\ phase = "arguments" /\ UNCHANGED <<phase, flags, bound, root, uid>>
         /\ args' \in 0..MAX_ARGS
         /\ IsConfig(config')
         /\ config'.options = config.options
         /\ config'.server_v4 = config.server_v4 /\ config'.server_v6 = config.server_v6
         /\ config'.require_v6 = config.require_v6
         /\ \E l \in AddrLists :
              /\ IsAddrList(l)
              /\ parse_addrs(l) # {}
              /\ config'.dns_addr_4 \in LastOf(l, "v4", config.dns_addr_4)
              /\ config'.dns_addr_6 \in LastOf(l, "v6", config.dns_addr_6)
              /\ given' = given \cup Given(l)
<1>1. /\ phase = "arguments" /\ UNCHANGED <<phase, flags, bound, root, uid>>
      /\ args < MAX_ARGS /\ args' = args + 1
  BY DEF SetAddrs, Argument
<1>2. args' \in 0..MAX_ARGS
  BY <1>1, StartupAssumption DEF Shape
<1>3. PICK l \in AddrLists :
         /\ IsAddrList(l)
         /\ parse_addrs(l) # {}
         /\ \E four \in LastOf(l, "v4", config.dns_addr_4), six \in LastOf(l, "v6", config.dns_addr_6) :
              config' = [config EXCEPT !.dns_addr_4 = four, !.dns_addr_6 = six]
         /\ given' = given \cup Given(l)
  BY Zenon DEF SetAddrs, Given
<1>4. PICK four \in LastOf(l, "v4", config.dns_addr_4), six \in LastOf(l, "v6", config.dns_addr_6) :
         config' = [config EXCEPT !.dns_addr_4 = four, !.dns_addr_6 = six]
  BY <1>3, Zenon
<1>5. /\ IsConfig(config')
      /\ config'.dns_addr_4 = four /\ config'.dns_addr_6 = six
      /\ config'.options = config.options
      /\ config'.server_v4 = config.server_v4 /\ config'.server_v6 = config.server_v6
      /\ config'.require_v6 = config.require_v6
  <2>1. IsConfig(config)
    BY DEF Shape
  <2>2. config' = [config EXCEPT !.dns_addr_4 = four, !.dns_addr_6 = six]
    BY <1>4, Zenon
  <2> QED
    BY <2>1, <2>2 DEF IsConfig
<1>6. /\ config'.dns_addr_4 \in LastOf(l, "v4", config.dns_addr_4)
      /\ config'.dns_addr_6 \in LastOf(l, "v6", config.dns_addr_6)
  BY <1>5, Zenon
<1> QED
  BY <1>1, <1>2, <1>3, <1>5, <1>6, Zenon

\* What LastOf leaves in a slot: what was there, or an address of the list that
\* is kept.
LEMMA SlotIsSet ==
  ASSUME NEW l \in AddrLists, IsAddrList(l), NEW family, NEW before \in Slot,
         NEW a \in LastOf(l, family, before)
  PROVE  /\ a \in Slot
         /\ a = before \/ (a \in Kept(l) /\ a.family = family)
         /\ (\E k \in parse_addrs(l) : l[k].family = family) => a \in Kept(l)
<1>1. \A k \in parse_addrs(l) : l[k] \in Addresses
  BY KeptAddr, Zenon DEF parse_addrs
<1>2. CASE a = before /\ \A k \in parse_addrs(l) : l[k].family # family
  BY <1>2
<1>3. CASE \E k \in parse_addrs(l) : a = l[k] /\ l[k].family = family
  BY <1>1, <1>3 DEF Kept, Slot
<1>4. \/ /\ a = before
         /\ \A k \in parse_addrs(l) : l[k].family # family
      \/ \E k \in parse_addrs(l) : a = l[k] /\ l[k].family = family
  BY LastKept
<1> QED
  BY <1>2, <1>3, <1>4, Zenon

\* The end of the arguments: the default addresses, if none was given.
LEMMA ParsedSteps ==
  ASSUME Shape, Parsed
  PROVE  /\ phase = "arguments" /\ phase' = "tcp"
         /\ UNCHANGED <<args, given, flags, bound, root, uid>>
         /\ IsConfig(config')
         /\ config'.options = config.options
         /\ Unset => config'.dns_addr_4 = DEFAULT_ADDR_V4 /\ config'.dns_addr_6 = DEFAULT_ADDR_V6
         /\ ~Unset => /\ config'.dns_addr_4 = config.dns_addr_4
                      /\ config'.dns_addr_6 = config.dns_addr_6
                      /\ config'.require_v6
         /\ config'.server_v4 = Advertised(config'.dns_addr_4, "v4")
         /\ config'.server_v6 = Advertised(config'.dns_addr_6, "v6")
<1> DEFINE four == IF Unset THEN DEFAULT_ADDR_V4 ELSE config.dns_addr_4
           six == IF Unset THEN DEFAULT_ADDR_V6 ELSE config.dns_addr_6
           v == Advertised(four, "v4")
           w == Advertised(six, "v6")
           z == require_v6
<1>1. /\ phase = "arguments" /\ phase' = "tcp"
      /\ UNCHANGED <<args, given, flags, bound, root, uid>>
  BY DEF Parsed
<1>2. config' = [config EXCEPT !.dns_addr_4 = four, !.dns_addr_6 = six, !.require_v6 = z,
                               !.server_v4 = v, !.server_v6 = w]
  BY Zenon DEF Parsed
<1>3. /\ Unset => four = DEFAULT_ADDR_V4 /\ six = DEFAULT_ADDR_V6
      /\ ~Unset => four = config.dns_addr_4 /\ six = config.dns_addr_6 /\ z
  BY Zenon DEF require_v6
<1>4. v = Advertised(four, "v4") /\ w = Advertised(six, "v6")
  OBVIOUS
<1> HIDE DEF four, six, v, w, z
<1>5. IsConfig(config)
  BY DEF Shape
<1>6. /\ IsConfig(config')
      /\ config'.dns_addr_4 = four /\ config'.dns_addr_6 = six
      /\ config'.require_v6 = z
      /\ config'.server_v4 = v /\ config'.server_v6 = w
      /\ config'.options = config.options
  BY <1>2, <1>5 DEF IsConfig
<1> QED
  BY <1>1, <1>3, <1>4, <1>6, Zenon

-----------------------------------------------------------------------------
(* What holds in every state.  The invariants of Startup speak of a server *)
(* that is serving; these say what each step up to there has done.         *)

\* As long as arguments are read, whoever gave an address has one in a slot.
GivenIsSet == phase = "arguments" /\ given # {} => ~Unset

\* An option that was given is from the command line.
FromArguments == \A o \in flags : config.options[o] = "argument"

\* If an address was given alone, its slot has an address that was given.
SlotIsGiven(family, a) ==
  \A g \in given : g.alone /\ g.addr.family = family => \E h \in given : h.addr = a

\* An address is not a private one from a list.
NotFromList(a) ==
  a # None /\ a.family = "v4" /\ a.kind = "private" =>
    a \in EnvAddrs \/ [addr |-> a, alone |-> TRUE] \in given

\* What parse_config leaves to main_loop.
Configured ==
  phase \in {"tcp", "udp4", "udp6", "user", "serving"} =>
    /\ ~Unset
    /\ config.require_v6 \/ (given = {} /\ config.dns_addr_6 = DEFAULT_ADDR_V6)
    /\ config.require_v6 \/ config.dns_addr_4 # None
    /\ config.server_v4 = Advertised(config.dns_addr_4, "v4")
    /\ config.server_v6 = Advertised(config.dns_addr_6, "v6")

\* Which sockets are bound, before each step of main_loop.
Sockets ==
  /\ bound.udp4 \in {None, config.dns_addr_4}
  /\ bound.udp6 \in {None, config.dns_addr_6}
  /\ phase = "arguments" => bound.udp4 = None /\ bound.udp6 = None
  /\ phase \in {"udp4", "udp6", "user", "serving"} => bound.tcp
  /\ phase \in {"udp6", "user", "serving"} => bound.udp4 = config.dns_addr_4
  /\ phase \in {"user", "serving"} =>
       bound.udp6 = config.dns_addr_6 \/ (bound.udp6 = None /\ ~config.require_v6)

UserIsSet == phase = "serving" /\ root /\ config.options["username"] # "default" => uid = "username"

StartInv ==
  /\ Shape
  /\ GivenIsSet
  /\ FromArguments
  /\ SlotIsGiven("v4", config.dns_addr_4)
  /\ SlotIsGiven("v6", config.dns_addr_6)
  /\ NotFromList(config.dns_addr_4)
  /\ NotFromList(config.dns_addr_6)
  /\ Configured
  /\ Sockets
  /\ UserIsSet

\* The environment alone, before any argument.
LEMMA InitHolds ==
  ASSUME Init
  PROVE  StartInv
<1>1. PICK four \in EnvAddrs, six \in EnvAddrs, from \in [Options -> {"env", "default"}] :
        config = [dns_addr_4 |-> four, dns_addr_6 |-> six, require_v6 |-> TRUE,
                  server_v4 |-> None, server_v6 |-> None, options |-> from]
  BY DEF Init
<1>2. /\ config.dns_addr_4 = four /\ config.dns_addr_6 = six /\ config.options = from
      /\ IsConfig(config)
  BY <1>1 DEF IsConfig
<1>3. /\ phase = "arguments" /\ args = 0 /\ given = {} /\ flags = {}
      /\ bound = [tcp |-> FALSE, udp4 |-> None, udp6 |-> None]
      /\ uid \in {"superuser", "somebody"}
  BY DEF Init
<1>4. IsBound(bound) /\ bound.udp4 = None /\ bound.udp6 = None
  BY <1>3 DEF IsBound
<1>5. four \in Slot /\ six \in Slot
  BY Addrs
<1>6. Shape
  <2>1. args \in 0..MAX_ARGS /\ phase \in Phases
    BY <1>3, StartupAssumption DEF Phases
  <2>2. from \in [Options -> {"default", "env", "argument"}]
    OBVIOUS
  <2> QED
    BY <1>2, <1>3, <1>4, <1>5, <2>1, <2>2 DEF Shape
<1>7. NotFromList(config.dns_addr_4) /\ NotFromList(config.dns_addr_6)
  BY <1>2, Zenon DEF NotFromList
<1> QED
  BY <1>3, <1>4, <1>6, <1>7
  DEF StartInv, GivenIsSet, FromArguments, SlotIsGiven, Configured, Sockets, UserIsSet

\* An option leaves the slots as they were.
LEMMA OptionKeeps ==
  ASSUME StartInv, SetOption
  PROVE  StartInv'
<1> USE DEF StartInv
<1>1. PICK o \in Options : /\ config'.options = [config.options EXCEPT ![o] = "argument"]
                           /\ flags' = flags \cup {o}
  BY OptionSteps
<1>2. /\ phase = "arguments" /\ UNCHANGED <<phase, given, bound, root, uid>>
      /\ args' \in 0..MAX_ARGS
      /\ IsConfig(config')
      /\ config'.dns_addr_4 = config.dns_addr_4 /\ config'.dns_addr_6 = config.dns_addr_6
  BY OptionSteps
<1>3. config.options \in [Options -> {"default", "env", "argument"}] /\ flags \subseteq Options
  BY DEF Shape
<1>4. config'.options \in [Options -> {"default", "env", "argument"}]
  BY <1>1, <1>3
<1>5. Shape'
  BY <1>1, <1>2, <1>4 DEF Shape
<1>6. FromArguments'
  BY <1>1, <1>3 DEF FromArguments
<1>7. GivenIsSet' /\ Sockets' /\ Configured' /\ UserIsSet'
  BY <1>2 DEF GivenIsSet, Unset, Sockets, Configured, UserIsSet
<1>8. /\ SlotIsGiven("v4", config.dns_addr_4)' /\ SlotIsGiven("v6", config.dns_addr_6)'
      /\ NotFromList(config.dns_addr_4)' /\ NotFromList(config.dns_addr_6)'
  BY <1>2 DEF SlotIsGiven, NotFromList
<1> QED
  BY <1>5, <1>6, <1>7, <1>8

\* An address that is kept was given, and alone if it is a private one of IPv4.
LEMMA KeptIsGiven ==
  ASSUME NEW l \in AddrLists, IsAddrList(l), NEW a \in Kept(l)
  PROVE  /\ \E h \in Given(l) : h.addr = a
         /\ a.family = "v4" /\ a.kind = "private" => [addr |-> a, alone |-> TRUE] \in Given(l)
<1>1. PICK k \in parse_addrs(l) : a = l[k]
  BY DEF Kept
<1>2. k \in DOMAIN l /\ (Len(l) > 1 => l[k].family = "v6" \/ l[k].kind # "private")
  BY <1>1 DEF parse_addrs
<1>3. [addr |-> a, alone |-> Len(l) = 1] \in Given(l)
  BY <1>1, <1>2, Zenon DEF Given
<1>4. [addr |-> a, alone |-> Len(l) = 1].addr = a
  OBVIOUS
<1>5. l \in Seq(Addresses \cup {Garbage})
  BY StartupAssumption
<1>6. Len(l) \in Nat /\ Len(l) # 0
  BY <1>2, <1>5
<1>7. ASSUME a.family = "v4", a.kind = "private"
      PROVE  [addr |-> a, alone |-> TRUE] \in Given(l)
  <2>1. ~(Len(l) > 1)
    BY <1>1, <1>2, <1>7
  <2> DEFINE n == Len(l)
  <2>2. n \in Nat /\ n # 0 /\ ~(n > 1)
    BY <1>6, <2>1
  <2> HIDE DEF n
  <2>3. n = 1
    BY <2>2
  <2>4. Len(l) = 1
    BY <2>3, Zenon DEF n
  <2>5. (Len(l) = 1) = TRUE
    BY <2>4
  <2> QED
    BY <1>3, <2>5, Zenon
<1> QED
  BY <1>3, <1>4, <1>7, Zenon

\* What a list does to the slot of a family.
LEMMA SlotKeeps ==
  ASSUME StartInv, NEW l \in AddrLists, IsAddrList(l), given' = given \cup Given(l),
         NEW family, NEW before \in Slot, SlotIsGiven(family, before), NotFromList(before),
         NEW a \in LastOf(l, family, before)
  PROVE  /\ a \in Slot
         /\ \A g \in given' : g.alone /\ g.addr.family = family => \E h \in given' : h.addr = a
         /\ a # None /\ a.family = "v4" /\ a.kind = "private" =>
              a \in EnvAddrs \/ [addr |-> a, alone |-> TRUE] \in given'
<1>1. /\ a \in Slot
      /\ a = before \/ (a \in Kept(l) /\ a.family = family)
      /\ (\E k \in parse_addrs(l) : l[k].family = family) => a \in Kept(l)
  BY SlotIsSet
<1>2. a \in Kept(l) => \E h \in given' : h.addr = a
  BY KeptIsGiven
<1>3. ASSUME NEW g \in given', g.alone, g.addr.family = family
      PROVE  \E h \in given' : h.addr = a
  <2>1. CASE a \in Kept(l)
    BY <1>2, <2>1
  <2>2. CASE a \notin Kept(l) /\ g \in given
    <3>1. a = before
      BY <1>1, <2>2
    <3> QED
      BY <1>3, <2>2, <3>1, Zenon DEF SlotIsGiven
  <2>3. CASE a \notin Kept(l) /\ g \in Given(l)
    <3>1. PICK k \in DOMAIN l : g = [addr |-> l[k], alone |-> Len(l) = 1]
      BY <2>3 DEF Given
    <3>2. g.addr = l[k] /\ g.alone = (Len(l) = 1)
      BY <3>1
    <3>3. Len(l) = 1
      BY <1>3, <3>2, Zenon
    <3>4. k \in parse_addrs(l)
      BY <3>3 DEF parse_addrs
    <3> QED
      BY <1>1, <1>3, <2>3, <3>2, <3>4, Zenon
  <2> QED
    BY <2>1, <2>2, <2>3
<1>4. ASSUME a # None, a.family = "v4", a.kind = "private"
      PROVE  a \in EnvAddrs \/ [addr |-> a, alone |-> TRUE] \in given'
  <2>1. CASE a \in Kept(l)
    BY <1>4, <2>1, KeptIsGiven
  <2>2. CASE a = before
    BY <1>4, <2>2, Zenon DEF NotFromList
  <2> QED
    BY <1>1, <2>1, <2>2
<1> QED
  BY <1>1, <1>3, <1>4, Zenon

\* A list of addresses replaces what was in a slot only by what was given.
LEMMA AddrKeeps ==
  ASSUME StartInv, SetAddrs
  PROVE  StartInv'
<1>1. PICK l \in AddrLists :
        /\ IsAddrList(l)
        /\ parse_addrs(l) # {}
        /\ config'.dns_addr_4 \in LastOf(l, "v4", config.dns_addr_4)
        /\ config'.dns_addr_6 \in LastOf(l, "v6", config.dns_addr_6)
        /\ given' = given \cup Given(l)
  BY AddrSteps DEF StartInv
<1>2. /\ phase = "arguments" /\ UNCHANGED <<phase, flags, bound, root, uid>>
      /\ args' \in 0..MAX_ARGS
      /\ IsConfig(config')
      /\ config'.options = config.options
  BY AddrSteps DEF StartInv
<1>3. /\ config.dns_addr_4 \in Slot /\ config.dns_addr_6 \in Slot
      /\ SlotIsGiven("v4", config.dns_addr_4) /\ SlotIsGiven("v6", config.dns_addr_6)
      /\ NotFromList(config.dns_addr_4) /\ NotFromList(config.dns_addr_6)
  BY Zenon DEF StartInv, Shape
<1> DEFINE four == config'.dns_addr_4
           six == config'.dns_addr_6
<1>4. /\ four \in Slot
      /\ \A g \in given' : g.alone /\ g.addr.family = "v4" => \E h \in given' : h.addr = four
      /\ four # None /\ four.family = "v4" /\ four.kind = "private" =>
           four \in EnvAddrs \/ [addr |-> four, alone |-> TRUE] \in given'
  BY <1>1, <1>3, SlotKeeps
<1>5. /\ six \in Slot
      /\ \A g \in given' : g.alone /\ g.addr.family = "v6" => \E h \in given' : h.addr = six
      /\ six # None /\ six.family = "v4" /\ six.kind = "private" =>
           six \in EnvAddrs \/ [addr |-> six, alone |-> TRUE] \in given'
  BY <1>1, <1>3, SlotKeeps
<1>6. Shape'
  <2>1. \A k \in DOMAIN l : l[k] \in Addresses
    BY <1>1, KeptAddr
  <2>2. Given(l) \subseteq [addr : Addresses, alone : BOOLEAN]
    <3>1. ASSUME NEW k \in DOMAIN l
          PROVE  [addr |-> l[k], alone |-> Len(l) = 1] \in [addr : Addresses, alone : BOOLEAN]
      <4>1. PICK b \in BOOLEAN : b = (Len(l) = 1)
        BY Zenon
      <4>2. [addr |-> l[k], alone |-> b] \in [addr : Addresses, alone : BOOLEAN]
        BY <2>1
      <4> QED
        BY <4>1, <4>2, Zenon
    <3> QED
      BY <3>1, Zenon DEF Given
  <2>3. given' \subseteq [addr : Addresses, alone : BOOLEAN]
    BY <1>1, <2>2 DEF StartInv, Shape
  <2> QED
    BY <1>2, <1>4, <1>5, <2>3 DEF StartInv, Shape
<1>7. GivenIsSet'
  <2>1. PICK k \in parse_addrs(l) : TRUE
    BY <1>1
  <2>2. k \in DOMAIN l
    BY DEF parse_addrs
  <2>3. l[k].family \in {"v4", "v6"}
    BY <1>1, <2>2, KeptAddr
  <2>4. \A a \in Kept(l) : a # None
    BY <1>1, KeptAddr, Addrs DEF Kept, parse_addrs
  <2>5. four \in Kept(l) \/ six \in Kept(l)
    <3>1. CASE l[k].family = "v4"
      BY <1>1, <1>3, <3>1, SlotIsSet
    <3>2. CASE l[k].family = "v6"
      BY <1>1, <1>3, <3>2, SlotIsSet
    <3> QED
      BY <2>3, <3>1, <3>2
  <2> QED
    BY <2>4, <2>5 DEF GivenIsSet, Unset
<1>8. FromArguments' /\ Sockets' /\ Configured' /\ UserIsSet'
  BY <1>2 DEF StartInv, FromArguments, Sockets, Configured, UserIsSet
<1>9. /\ SlotIsGiven("v4", config.dns_addr_4)' /\ SlotIsGiven("v6", config.dns_addr_6)'
      /\ NotFromList(config.dns_addr_4)' /\ NotFromList(config.dns_addr_6)'
  BY <1>4, <1>5, Zenon DEF SlotIsGiven, NotFromList
<1> QED
  BY <1>6, <1>7, <1>8, <1>9 DEF StartInv

\* What is configured is what has been given, or the default.
LEMMA ParsedKeeps ==
  ASSUME StartInv, Parsed
  PROVE  StartInv'
<1>1. /\ phase = "arguments" /\ phase' = "tcp"
      /\ UNCHANGED <<args, given, flags, bound, root, uid>>
      /\ IsConfig(config')
      /\ config'.options = config.options
  BY ParsedSteps DEF StartInv
<1>2. /\ config'.server_v4 = Advertised(config'.dns_addr_4, "v4")
      /\ config'.server_v6 = Advertised(config'.dns_addr_6, "v6")
  BY ParsedSteps DEF StartInv
<1>3. FromArguments' /\ Sockets' /\ UserIsSet'
  BY <1>1 DEF StartInv, FromArguments, Sockets, UserIsSet
<1>4. CASE Unset
  <2>1. config'.dns_addr_4 = DEFAULT_ADDR_V4 /\ config'.dns_addr_6 = DEFAULT_ADDR_V6
    BY <1>4, ParsedSteps DEF StartInv
  <2>2. given' = {}
    BY <1>1, <1>4, Zenon DEF StartInv, GivenIsSet
  <2>3. DEFAULT_ADDR_V4.kind # "private" /\ DEFAULT_ADDR_V6.family = "v6"
    BY StartupAssumption
  <2>4. Shape'
    BY <1>1, <2>1, Addrs DEF StartInv, Shape, Slot, Phases
  <2>5. NotFromList(config.dns_addr_4)' /\ NotFromList(config.dns_addr_6)'
    BY <2>1, <2>3 DEF NotFromList
  <2>6. SlotIsGiven("v4", config.dns_addr_4)' /\ SlotIsGiven("v6", config.dns_addr_6)'
    BY <2>2 DEF SlotIsGiven
  <2>7. GivenIsSet'
    BY <2>2 DEF GivenIsSet
  <2>8. ~Unset' /\ config'.dns_addr_4 # None
    BY <2>1, Addrs DEF Unset
  <2>9. Configured'
    BY <1>2, <2>1, <2>2, <2>8, Zenon DEF Configured
  <2> QED
    BY <1>3, <2>4, <2>5, <2>6, <2>7, <2>9, Zenon DEF StartInv
<1>5. CASE ~Unset
  <2>1. config'.dns_addr_4 = config.dns_addr_4 /\ config'.dns_addr_6 = config.dns_addr_6
    BY <1>5, ParsedSteps DEF StartInv
  <2>2. config'.require_v6
    BY <1>5, ParsedSteps, Zenon DEF StartInv
  <2>3. Shape'
    BY <1>1, <2>1 DEF StartInv, Shape, Phases
  <2>4. ~Unset'
    BY <1>5, <2>1 DEF Unset
  <2>5. Configured'
    BY <1>2, <2>2, <2>4, Zenon DEF Configured
  <2>6. GivenIsSet'
    BY <1>1 DEF GivenIsSet
  <2>7. /\ SlotIsGiven("v4", config.dns_addr_4)' /\ SlotIsGiven("v6", config.dns_addr_6)'
        /\ NotFromList(config.dns_addr_4)' /\ NotFromList(config.dns_addr_6)'
    BY <1>1, <2>1 DEF StartInv, SlotIsGiven, NotFromList
  <2> QED
    BY <1>3, <2>3, <2>5, <2>6, <2>7, Zenon DEF StartInv
<1> QED
  BY <1>4, <1>5

\* A step that leaves the configuration alone has only the sockets and the user
\* to account for.
LEMMA ConfigStays ==
  ASSUME StartInv, UNCHANGED <<config, given, flags, root>>
  PROVE  /\ FromArguments'
         /\ SlotIsGiven("v4", config.dns_addr_4)' /\ SlotIsGiven("v6", config.dns_addr_6)'
         /\ NotFromList(config.dns_addr_4)' /\ NotFromList(config.dns_addr_6)'
         /\ Unset' = Unset
         /\ phase \in {"tcp", "udp4", "udp6", "user", "serving"} => Configured'
         /\ phase' \in {"arguments", "exited"} => Configured'
         /\ phase' # "arguments" => GivenIsSet'
<1>1. FromArguments'
  BY DEF StartInv, FromArguments
<1>2. /\ SlotIsGiven("v4", config.dns_addr_4)' /\ SlotIsGiven("v6", config.dns_addr_6)'
      /\ NotFromList(config.dns_addr_4)' /\ NotFromList(config.dns_addr_6)'
  BY DEF StartInv, SlotIsGiven, NotFromList
<1>3. Unset' = Unset
  BY DEF Unset
<1>4. phase \in {"tcp", "udp4", "udp6", "user", "serving"} => Configured'
  BY <1>3, Zenon DEF StartInv, Configured
<1>5. phase' \in {"arguments", "exited"} => Configured'
  BY DEF Configured
<1>6. phase' # "arguments" => GivenIsSet'
  BY DEF GivenIsSet
<1> QED
  BY <1>1, <1>2, <1>3, <1>4, <1>5, <1>6

\* The listener is bound first.
LEMMA BindTcpKeeps ==
  ASSUME StartInv, BindTcp
  PROVE  StartInv'
<1>1. /\ phase = "tcp" /\ phase' = "udp4"
      /\ UNCHANGED <<config, args, given, flags, root, uid>>
      /\ bound' = [bound EXCEPT !.tcp = TRUE]
  BY DEF BindTcp, Goes
<1>2. IsBound(bound') /\ bound'.tcp /\ bound'.udp4 = bound.udp4 /\ bound'.udp6 = bound.udp6
  BY <1>1 DEF StartInv, Shape, IsBound
<1>3. Shape' /\ UserIsSet'
  BY <1>1, <1>2 DEF StartInv, Shape, UserIsSet, Phases
<1>4. Sockets'
  BY <1>1, <1>2 DEF StartInv, Sockets
<1> QED
  BY <1>1, <1>3, <1>4, ConfigStays DEF StartInv

\* Then the socket for IPv4, if there is an address.
LEMMA BindUdp4Keeps ==
  ASSUME StartInv, BindUdp4
  PROVE  StartInv'
<1>1. /\ phase = "udp4" /\ phase' = "udp6"
      /\ UNCHANGED <<config, args, given, flags, root, uid>>
      /\ bound' = [bound EXCEPT !.udp4 = config.dns_addr_4]
  BY DEF BindUdp4, Goes, bind_udp_socket
<1>2. /\ IsBound(bound') /\ bound'.tcp = bound.tcp
      /\ bound'.udp4 = config.dns_addr_4 /\ bound'.udp6 = bound.udp6
  BY <1>1 DEF StartInv, Shape, IsBound
<1>3. Shape' /\ UserIsSet'
  BY <1>1, <1>2 DEF StartInv, Shape, UserIsSet, Phases
<1>4. Sockets'
  BY <1>1, <1>2 DEF StartInv, Sockets
<1> QED
  BY <1>1, <1>3, <1>4, ConfigStays DEF StartInv

\* Then the socket for IPv6, which may be optional.
LEMMA BindUdp6Keeps ==
  ASSUME StartInv, BindUdp6
  PROVE  StartInv'
<1>1. PICK s \in bind_udp_socket(config.dns_addr_6, config.require_v6) :
        bound' = [bound EXCEPT !.udp6 = s]
  BY DEF BindUdp6
<1>2. /\ phase = "udp6" /\ phase' = "user"
      /\ UNCHANGED <<config, args, given, flags, root, uid>>
  BY DEF BindUdp6, Goes
<1>3. s = config.dns_addr_6 \/ (s = None /\ ~config.require_v6)
  BY Zenon DEF bind_udp_socket
<1>4. /\ IsBound(bound') /\ bound'.tcp = bound.tcp
      /\ bound'.udp4 = bound.udp4 /\ bound'.udp6 = s
  BY <1>1 DEF StartInv, Shape, IsBound
<1>5. Shape' /\ UserIsSet'
  BY <1>2, <1>4 DEF StartInv, Shape, UserIsSet, Phases
<1>6. Sockets'
  BY <1>2, <1>3, <1>4 DEF StartInv, Sockets
<1> QED
  BY <1>2, <1>5, <1>6, ConfigStays DEF StartInv

\* Last, the user is changed, if the process is run by the superuser and was told one.
LEMMA SetUserKeeps ==
  ASSUME StartInv, set_user
  PROVE  StartInv'
<1>1. /\ phase = "user" /\ phase' = "serving"
      /\ UNCHANGED <<config, args, given, flags, root, bound>>
      /\ uid' = IF root /\ config.options["username"] # "default" THEN "username" ELSE uid
  BY DEF set_user, Goes
<1>2. uid' \in {"superuser", "somebody", "username"} /\ UserIsSet'
  BY <1>1 DEF StartInv, Shape, UserIsSet
<1>3. Shape'
  BY <1>1, <1>2 DEF StartInv, Shape, Phases
<1>4. Sockets'
  BY <1>1 DEF StartInv, Sockets
<1> QED
  BY <1>1, <1>2, <1>3, <1>4, ConfigStays DEF StartInv

\* A process that ends changes nothing else that is told of it.
LEMMA ExitKeeps ==
  ASSUME StartInv, UNCHANGED <<config, given, flags, root, bound, uid>>,
         phase' = "exited", args' \in 0..MAX_ARGS
  PROVE  StartInv'
<1>1. Shape'
  BY DEF StartInv, Shape, Phases
<1>2. Sockets' /\ UserIsSet'
  BY DEF StartInv, Sockets, UserIsSet
<1> QED
  BY <1>1, <1>2, ConfigStays DEF StartInv

\* Nothing has happened.
LEMMA StutterKeeps ==
  ASSUME StartInv, UNCHANGED vars
  PROVE  StartInv'
<1>1. UNCHANGED <<config, phase, args, given, flags, bound, root, uid>>
  BY DEF vars
<1>2. Shape'
  BY <1>1 DEF StartInv, Shape
<1>3. GivenIsSet' /\ Sockets' /\ UserIsSet'
  BY <1>1 DEF StartInv, GivenIsSet, Unset, Sockets, UserIsSet
<1>4. Configured'
  BY <1>1, ConfigStays, Zenon DEF StartInv, Configured
<1> QED
  BY <1>1, <1>2, <1>3, <1>4, ConfigStays DEF StartInv

\* Every step keeps the account of the start.
LEMMA StepHolds ==
  ASSUME StartInv, [Next]_vars
  PROVE  StartInv'
<1>1. CASE SetOption \/ SetAddrs \/ Parsed
  BY <1>1, OptionKeeps, AddrKeeps, ParsedKeeps
<1>2. CASE BadArgument \/ BadAddrs
  <2>1. args < MAX_ARGS /\ args' = args + 1
    BY <1>2 DEF BadArgument, BadAddrs, Argument
  <2>2. args' \in 0..MAX_ARGS
    BY <2>1, StartupAssumption DEF StartInv, Shape
  <2>3. phase' = "exited" /\ UNCHANGED <<config, given, flags, root, bound, uid>>
    BY <1>2 DEF BadArgument, BadAddrs, Argument, Exits
  <2> QED
    BY <2>2, <2>3, ExitKeeps
<1>3. CASE Fails
  <2>1. phase' = "exited" /\ UNCHANGED <<config, given, flags, root, bound, uid, args>>
    BY <1>3 DEF Fails, Goes
  <2>2. args' \in 0..MAX_ARGS
    BY <2>1 DEF StartInv, Shape
  <2> QED
    BY <2>1, <2>2, ExitKeeps
<1>4. CASE BindTcp \/ BindUdp4 \/ BindUdp6 \/ set_user
  BY <1>4, BindTcpKeeps, BindUdp4Keeps, BindUdp6Keeps, SetUserKeeps
<1>5. CASE UNCHANGED vars
  BY <1>5, StutterKeeps
<1> QED
  BY <1>1, <1>2, <1>3, <1>4, <1>5, Zenon DEF Next, Settled

\* Every reachable state has the invariant.
LEMMA StartInvHolds == Spec => []StartInv
<1>1. Init => StartInv
  BY InitHolds
<1>2. StartInv /\ [Next]_vars => StartInv'
  BY StepHolds
<1> QED
  BY <1>1, <1>2, PTL DEF Spec
-----------------------------------------------------------------------------
(* The properties of Startup follow in each state.                         *)

\* What is in a socket is what its slot has.
LEMMA SocketHasSlot ==
  ASSUME StartInv
  PROVE  /\ \A a \in Listening : a \in {config.dns_addr_4, config.dns_addr_6} \ {None}
         /\ \A a \in ListeningInPlace :
              \/ a = config.dns_addr_4 /\ a.family = "v4"
              \/ a = config.dns_addr_6 /\ a.family = "v6"
<1>1. bound.udp4 \in {None, config.dns_addr_4} /\ bound.udp6 \in {None, config.dns_addr_6}
  BY DEF StartInv, Sockets
<1>2. \A a \in Listening : a \in {config.dns_addr_4, config.dns_addr_6} \ {None}
  BY <1>1 DEF Listening
<1>3. \A a \in ListeningInPlace :
         \/ a = config.dns_addr_4 /\ a.family = "v4"
         \/ a = config.dns_addr_6 /\ a.family = "v6"
  BY <1>1 DEF ListeningInPlace, InPlace
<1> QED
  BY <1>2, <1>3

\* The shape is part of that account.
LEMMA HasType ==
  ASSUME StartInv
  PROVE  TypeOK
BY DEF StartInv, Shape, Sockets, TypeOK

\* What is known of a server that is serving.
LEMMA WhenServing ==
  ASSUME StartInv, Serving
  PROVE  /\ bound.tcp
         /\ bound.udp4 = config.dns_addr_4
         /\ \/ bound.udp6 = config.dns_addr_6
            \/ /\ bound.udp6 = None
               /\ given = {} /\ config.dns_addr_6 = DEFAULT_ADDR_V6
               /\ config.dns_addr_4 # None
         /\ ~Unset
         /\ config.server_v4 = Advertised(config.dns_addr_4, "v4")
         /\ config.server_v6 = Advertised(config.dns_addr_6, "v6")
<1>1. phase = "serving"
  BY DEF Serving
<1>2. /\ phase \in {"tcp", "udp4", "udp6", "user", "serving"}
      /\ phase \in {"udp4", "udp6", "user", "serving"}
      /\ phase \in {"udp6", "user", "serving"}
      /\ phase \in {"user", "serving"}
  BY <1>1
<1> QED
  BY <1>2, Zenon DEF StartInv, Sockets, Configured

\* A process that serves has what it was configured with.
LEMMA IsAsConfigured ==
  ASSUME StartInv
  PROVE  RunsAsConfigured
<1> SUFFICES ASSUME Serving
             PROVE  /\ bound.tcp
                    /\ Listening # {}
                    /\ \A a \in {config.dns_addr_4, config.dns_addr_6} \ {None} :
                         a \in Listening \/ (a = DEFAULT_ADDR_V6 /\ given = {})
                    /\ root /\ config.options["username"] # "default" => uid = "username"
  BY Zenon DEF RunsAsConfigured
<1>1. bound.tcp
  BY WhenServing
<1>2. /\ bound.udp4 = config.dns_addr_4
      /\ \/ bound.udp6 = config.dns_addr_6
         \/ /\ bound.udp6 = None
            /\ given = {} /\ config.dns_addr_6 = DEFAULT_ADDR_V6
            /\ config.dns_addr_4 # None
      /\ ~(config.dns_addr_4 = None /\ config.dns_addr_6 = None)
  BY WhenServing, Zenon DEF Unset
<1>3. Listening # {}
  BY <1>2 DEF Listening
<1>4. \A a \in {config.dns_addr_4, config.dns_addr_6} \ {None} :
         a \in Listening \/ (a = DEFAULT_ADDR_V6 /\ given = {})
  BY <1>2 DEF Listening
<1>5. root /\ config.options["username"] # "default" => uid = "username"
  BY Zenon DEF StartInv, UserIsSet, Serving
<1> QED
  BY <1>1, <1>3, <1>4, <1>5, Zenon

\* What it tells is what it has bound.
LEMMA IsAdvertised ==
  ASSUME StartInv
  PROVE  AdvertisedIsBound
<1> SUFFICES ASSUME Serving
             PROVE  {config.server_v4, config.server_v6} \ {None}
                      = {a \in ListeningInPlace : a.kind # "unspecified"}
  BY Zenon DEF AdvertisedIsBound
<1> DEFINE four == config.dns_addr_4
           six == config.dns_addr_6
<1>1. /\ config.server_v4 = Advertised(four, "v4")
      /\ config.server_v6 = Advertised(six, "v6")
      /\ bound.udp4 = four
  BY WhenServing, Zenon
<1>2. CASE bound.udp6 = six
  BY <1>1, <1>2 DEF ListeningInPlace, InPlace, Advertised
<1>3. CASE bound.udp6 = None /\ six = DEFAULT_ADDR_V6
  <2>1. config.server_v6 = None
    BY <1>1, <1>3, ReleaseBuild DEF Advertised
  <2> QED
    BY <1>1, <1>3, <2>1 DEF ListeningInPlace, InPlace, Advertised
<1> QED
  BY <1>2, <1>3, WhenServing, Zenon

\* What it has bound is what an argument gave, if one did.
LEMMA HasPrecedence ==
  ASSUME StartInv
  PROVE  ArgumentsTakePrecedence
<1>1. \A o \in flags : config.options[o] = "argument"
  BY Zenon DEF StartInv, FromArguments
<1>2. ASSUME NEW g \in given, NEW a \in ListeningInPlace, g.alone, g.addr.family = a.family
      PROVE  \E h \in given : h.addr = a
  <2>1. CASE a = config.dns_addr_4 /\ a.family = "v4"
    BY <1>2, <2>1, Zenon DEF StartInv, SlotIsGiven
  <2>2. CASE a = config.dns_addr_6 /\ a.family = "v6"
    BY <1>2, <2>2, Zenon DEF StartInv, SlotIsGiven
  <2> QED
    BY <2>1, <2>2, SocketHasSlot
<1> QED
  BY <1>1, <1>2, Zenon DEF ArgumentsTakePrecedence

\* A private address was not picked out of a list.
LEMMA IsAlone ==
  ASSUME StartInv
  PROVE  PrivateOnlyAlone
<1> SUFFICES ASSUME NEW a \in Listening, a.family = "v4", a.kind = "private"
             PROVE  a \in EnvAddrs \/ [addr |-> a, alone |-> TRUE] \in given
  BY Zenon DEF PrivateOnlyAlone
<1>1. a # None /\ (a = config.dns_addr_4 \/ a = config.dns_addr_6)
  BY SocketHasSlot
<1>2. NotFromList(a)
  BY <1>1, Zenon DEF StartInv
<1> QED
  BY <1>1, <1>2, Zenon DEF NotFromList

\* The state keeps its shape, and a socket that is bound has the address that is
\* configured for it (config.rs:135-239, main.rs:52-78).
THEOREM StartTypeCorrect == Spec => []TypeOK
BY StartInvHolds, HasType, PTL

\* A server that runs has a socket for DNS, and one for every address it was told
\* to listen on, and runs as the user it was told to (main.rs:57-78).
THEOREM ServerRunsAsConfigured == Spec => []RunsAsConfigured
BY StartInvHolds, IsAsConfigured, PTL

\* What is told to those who ask for the server's own addresses is what it is
\* listening on (config.rs:214-228).
THEOREM AdvertisedAddressIsBound == Spec => []AdvertisedIsBound
BY StartInvHolds, IsAdvertised, PTL

\* An argument has precedence over the environment, in whatever order arguments
\* come (config.rs:140-200).
THEOREM ArgumentsPrecede == Spec => []ArgumentsTakePrecedence
BY StartInvHolds, HasPrecedence, PTL

\* A private address of IPv4 in a list is never listened on (config.rs:243-272).
THEOREM PrivateIsAlone == Spec => []PrivateOnlyAlone
BY StartInvHolds, IsAlone, PTL
=============================================================================
