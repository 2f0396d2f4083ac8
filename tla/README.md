# A TLA+ model of acme-champion

acme-champion is a small DNS server that answers DNS-01 ACME challenges, and a
certbot plugin that registers those challenges over HTTP on localhost. The
server is one thread around an edge-triggered poll: it accepts a connection and
blocks on it, or receives a datagram, counts it against a per-address limiter
and answers from a list of challenges kept in memory.

This directory holds the modules that model it, the TLC configurations that
check them on small instances, and proofs that TLAPS checks for every value of
the constants. Paths below are relative to the repository (`src/main.rs` is the
Rust crate's main file).

## Inventory

| Part | State | Operations | Hard behaviour |
|------|-------|------------|----------------|
| Challenge list, `src/challenges.rs` | a queue of at most `MAX_LEN` challenges | `set`, `cleanup`, `named`, `any` | eviction at the bound, duplicates from retried requests, lookup that ignores case and deletion that does not |
| Rate limiter, `src/rate_limiter.rs` | a map from address to `KnownSince(start, count)` or `BlockedUntil(end)` | `increment`, with `cleanup` at capacity | strict and non-strict comparison at a deadline, a full table, a `u8` counter, the wall clock |
| HTTP handler, `src/http_handler.rs` | none of its own | `handle_http`, `challenge_from_req` | one blocking read, partial heads, a store change before the response is written |
| DNS handler, `src/dns_handler.rs` | none of its own | `handle_dns`, `handle_request`, `valid_return_address` | order of the checks, a send loop that may repeat |
| DNS messages, `src/dns/` | none that outlives a message | `response_for_message`, `QueryHeader::from_bytes`, `Query::from_bytes`, `Response::to_bytes` | bytes that end early, label pointers, the limit of a name, length casts |
| Event loop, `src/main.rs` | the poll, its events, two UDP sockets, a listener | `main_loop`, `accept`, `recv` | edges reported once, drains cut short by an error, fatal errors, a slow client that stalls all of DNS |
| Plugin, `certbot-dns-champ/champ.py` | the challenges still to be handled in a run of certbot | `perform`, `_perform`, `cleanup`, `_cleanup`, setup and teardown scripts | timeouts of five seconds after which the server still handles the request, exceptions that are not caught |
| Start, `src/config.rs`, `src/user.rs`, the binding in `src/main.rs` | the configuration, the sockets, the user | `parse_config`, `parse_addrs`, `bind_tcp_listener`, `bind_udp_socket`, `set_user` | environment, repeated arguments and lists fill the same two slots; one step of several fails |
| Time stamps, `src/time.rs` | none | `Time::from`, `Display` | division that rounds towards zero, the last day of a cycle of years |
| Logger, `src/logger.rs` | the format | `log` | output only |

The handlers share the list and the limiter by reference; there is one thread,
so each call is atomic. What interleaves is the thread with its environment:
clients that connect, send in pieces and give up; datagrams that arrive while
something else is handled; system calls that fail; the wall clock; and whoever
starts the process again.

What makes the parts correct:

* the list serves what was registered and not deleted, until `MAX_LEN` later
  registrations push it out, and nothing else;
* the limiter holds its bounds in size and in answers per time, keeps a block
  in force, and turns nobody away without a reason;
* an answer says what is registered when it is sent, and goes to an address
  within its limit;
* the list changes only in a step that tells the client so, or whose client has
  gone;
* nothing that waits in a kernel queue is forgotten, and all of it is handled
  in the end;
* seen from outside, the server is a set of challenges that forgets one only for
  lack of room, and answers that tell the truth about it;
* the question of a response is that of the query, and a resolver that finds it
  there finds the answers that were meant;
* what the plugin was told of a challenge stays true, whatever became of
  requests it had given up;
* a process that serves has the sockets and the user it was configured with, and
  tells only addresses it listens on.

## Modules

`RateLimiter` has one action for each way `increment` returns: `ShortCircuit`
(25-30), `StartWindow` (43-46 and 62-65), `CountQuery` (49, 58-59),
`StartBlock` (51-55) and `StillBlocked` (66-68). `Purged` is the table after the
`cleanup` that runs at capacity, and is part of each of these actions. The
HashMap is a total function with `Absent` for addresses without an entry. The
clock moves between calls in both directions (`AdvanceClock`, `SetClockBack`).

`RateLimiterHistory` adds two history variables: `granted`, the times at which
each address was let through, and `steady`, whether the clock has only moved
forward. What is promised over time is promised while `steady` holds; when the
clock is set back, no history is kept any longer.

`Challenges` keeps the list and two history variables: `wanted`, the challenges
set and not cleaned up since, and `since`, how many calls of `set` came after
the last one for a challenge. Strings are model values; `CaseFold` stands for
`eq_ignore_ascii_case`. `At(l, P)` is the sequence of what a list holds at the
positions `P`, as a one-element set; TLC evaluates an assumption of
`MCChallenges` that it agrees with the library's `Remove`.

`HttpHandler` and `DnsHandler` have no variables. The first says what a complete
request means: which challenge it carries, whether it registers or deletes, and
the status code. The second says what a DNS message means: whether it is
answered, with which code and answers. `TrimDots` stands for
`trim_end_matches('.')`, which the domain and the name go through and the value
does not.

`Server` is the event loop with the two handlers and instances of `Challenges`
and `RateLimiter`. `pc` is the place in the loop:

| `pc` | place | actions that leave it |
|------|-------|-----------------------|
| `down` | no process | `Bind` |
| `bound` | sockets bound, not registered (main.rs:56-62) | `Register`, `Fails` |
| `poll` | in `poll.poll` (97) | `DoPoll`, `Fails` |
| `dispatch` | the `for` over events (102) | `NextEvent`, `NoMoreEvents` |
| `drain` | at `accept` or `recv` (109, 117, 131) | `Accept`, `WouldBlock`, `DrainFails`, and one action for each way a datagram is handled |
| `read` | in the read of an accepted stream (http_handler.rs:25) | `HandleRequest`, `PartialRequest`, `DroppedRequest` |
| `send` | in the send loop (dns_handler.rs:54-68) | `SendTo` |
| `panic` | unwinding | `Unwind` |

The kernel is modelled from how the loop uses mio: `ready` holds the edges that
poll has not reported, an arrival adds one, registration adds one for what is
there already, and poll reports those whose queue is still not empty. `Exit`
loses the process's memory and its sockets with what they hold. A request that
is larger than the 4096 bytes of the buffer, or whose head comes in more than
one segment, is a connection that has sent only a part when it is read.

`Champion` is the abstract server: `registry`, a set of challenges, `places`, how
many registrations it can take before it forgets one, and `answer`, what is being
told to a client, which is `Truth` of the registry when it is composed and leaves
before the registry changes. It has no sockets, no limiter and no loop.
`ServerPromise` gives the refinement mapping, `INSTANCE Champion WITH`: the list
stands for the set of what is in it, its free room for the places, the response
in the send loop for the answer. `PromiseKept` is `Champion!Spec`.

`Plugin` is one run of certbot after the other: `perform` with the setup script,
`_perform` and `_cleanup` once for each challenge, `cleanup` and `Teardown`. A
request has one of three results: a status code, a `ConnectionError` (also for
`HTTPException`, which the code treats alike) or a `TimeoutError`. certbot calls
`cleanup` whether `perform` returns or raises. `System` composes it with
`Server`: the plugin is the client of the HTTP listener, `Connects` and `Sends`
are the server's `Connect` and `Send`, and a step of the server that lets go of
its connection leaves a `reply`. `RequestTimesOut` only closes the plugin's end:
the connection stays in the queue, and its request is handled later.

`DnsQuery` is `Query::from_bytes` over the bytes of a message: `ReadLabel`,
`FollowPointer` and the ways a label can be wrong, `ReadTail` for type and class,
then `AddLabel` for each label, in the order of the code, so that a message with
two faults gets the error the code gives it. A read past the end is a `Panic`.
`PlainEnd` is the reader it is compared with: where a name ends that is written
out as RFC 1035 has it, without pointers. `DnsResponse` extends it to the whole
way from the bytes of a message to those of the response: the header, the early
exits, the question, one action for each answer that `handle_request` may add,
and `to_bytes` with its casts. Its reference decoder (`NameEnd`, `RecordAt`,
`RecordStart`, `Records`) reads the response as RFC 1035 has it, record by record: a
length of 64 or more is none, so there is no name behind which anything could be
found. `QuestionFound` says that the question has a name, and what is said of the
answers is said of a response in which it is found. A message of less than 12
bytes, which `QueryHeader::from_bytes` turns down, is left to `short` of
`DnsHandler`.
`DnsHandler` remains the abstraction that `Server` uses; `DnsDecisions` says which
of its records stands for the bytes of a message, which of its responses for the
one that is sent, and that the two agree (`DecisionsAgree`).

`Startup` is `parse_config` from the environment and the arguments one by one,
then the binding of the sockets in the order of `main_loop`, then `set_user`.
Addresses have a family and a kind (unspecified, private, public); of the other
options only where the value is from is kept. `parse_addrs` is the set of the
positions in a list whose address is kept, `LastOf` the address that the loop
over them leaves in the slot of a family. An argument that is no option changes
nothing in the code and is left out.

`Time` lets a clock tick through chosen days and compares each time stamp with
the next one of the Gregorian calendar. The numbers of hours, minutes, seconds
and parts of a second are constants, so that each tick of a day can be tried; the
lengths of years, cycles and months are the code's.

The `MC` modules give the constants their small values. Definitions whose comment
starts with "Mutant of" are deliberate mistakes; each property is known to fail
when one of them replaces the definition it names.

## Runs

| Run | Instance | Shows |
|-----|----------|-------|
| `rate_limiter` | 3 addresses, table of 2, window 2, block 3, limit 3, seconds -1..4 | `TypeOK`, `SizeBounded`, `BlockHolds`, `ExpiredIsServed` under any clock; `SlidingWindow`, `BlockIsJustified` and `HistoryInv`, the invariant of their proof, until it is set back |
| `challenges` | list of 3, names in two spellings, two values | `TypeOK` with the bound of the list, `Kept`, `NothingElse`, and `AllPlaced`, the invariant of the proof |
| `server_answers` | one connection, one socket, one address, list of 2, one failing call, restarts | `NothingWithheld`, `NothingInvented`, `NoLostWakeup`, and the refinement `PromiseKept` |
| `server_inputs` | every kind of request and of message | `OnlyWithinLimit`, `ChangesConfirmed` |
| `server_live` | two connections, two sockets, no failing call | `DatagramsHandled`, `ClientsHandled` |
| `server_panic` | a whole and a cut question | a violation of `NoPanic` |
| `system` | runs of certbot for one or two challenges, two connections, accept queue of 1, one failing call, restarts | `ConfirmedIsRegistered`, `DeletedStaysAway`, `RunsEnd` |
| `system_teardown` | the same | a violation of `TeardownIsRun` |
| `dns_response` | every message of up to four bytes of name (and what may be left of a type and class); every type with names of up to two labels, with names of 254, 255 and 256 bytes, with labels of 63 and 64 bytes written out, and with pointers to bytes of 63, 64 and 79; every first byte of the flags; values of 0, 1, 255 and 256 bytes | the reader: `ReadingEnds`, `NameIsWhole`, `EchoesQuestion`, `ParentIsName`, `NamesAreRead`; the response: `RTypeOK`, `MatchesQuery`, `AnswersReadBack`, `DataReadsBack`; both against `DnsHandler`: `DecisionsAgree` |
| `dns_text` | the same | a violation of `TextIsValue` |
| `startup` | four values for either variable, two arguments, ten lists of addresses | `RunsAsConfigured`, `AdvertisedIsBound`, `ArgumentsTakePrecedence`, `PrivateOnlyAlone` |
| `time` | the ends of February and December of ten years from 1600 to 2400, all of 2023 and 2024 | `FollowsCalendar` |

Bounds. A limit of three gives a window a first, a middle and a last query, and
a table of two for three addresses is full while a third one asks. Six seconds,
one of them before the epoch, let a window and a block end, at their last second
and after it, and another window begin. A list of three evicts while it holds duplicates
and spellings of one name. In the server a queue of one or two entries is enough
for an arrival before, during and after a drain; a failing call strands a queue
or ends the process, which is then started again. In `system` there is a
connection more than the accept queue holds, so that one request can be waiting,
given up, while the next is made or finds the queue full. In `dns_response` the
limit of a name is the code's, 255, and there are names one byte below it, at it
and above it; a label that a pointer leads to is as long as one may be that is
written out, or longer; a value is as long as its length byte can tell, or longer;
the bytes of short names are chosen so that each class of them occurs (lengths, letters of either
case, a byte that is neither length nor pointer and not ASCII, pointers to the
header, to an earlier label and forward). `BACKLOG`, `RCVBUF`, `MAX_FAULTS`,
`Times`, `MAX_NAME`, `MAX_ANSWERS`, `MAX_ARGS` and `Days` are the names of the
bounds.

Fairness. The thread runs when it can (`WF` of `Step`), and a client sends its
request or gives up, as the plugin does after five seconds (champ.py:49, 67).
Progress is claimed only if new work stops at some time (`Quiet`): a drain loop
ends when its queue is empty, and the code does not bound how many entries it
takes in one go (main.rs:109, 117, 131). Nor does anything bound how long a
client other than the plugin may stay silent; while it does, DNS is not
answered. A send that would block is repeated and assumed to end. In `system`
only the plugin is fair (`WF` of `PluginMoves`): each of its steps is its own or
becomes possible after five seconds, and `RunsEnd` assumes nothing of the server.

No run disables the check for deadlock: the environment can always move.

### What the violations show

`server_panic`. `Query::from_bytes` (dns/query.rs:47, 51) reads the type and
class of a question with `u16_at`, which indexes without a check
(dns/mod.rs:17), and `read_label` does the same with a pointer (query.rs:111). A
message whose bytes end there panics and, there being one thread, ends the
process; all challenges are lost. The error path one would expect, FormErr after
`QueryError::TooShort` (dns/mod.rs:82-86), is only taken when a label ends early.

`system_teardown`. `_cleanup` catches `HTTPException` and `ConnectionError`
(champ.py:70-72), but what its timeout (67) raises is a `TimeoutError`, which is
neither. It leaves `_cleanup` and `cleanup`: the remaining challenges stay
registered, and the script that is to run "after performing authentication" (28)
does not.

`dns_text`. `add_txt_answer` casts the length of a value to `u8`
(dns/response.rs:51) and puts the whole value behind it. A value of 256 bytes gets a
length byte of 0, and no longer value has one that tells its length; the HTTP
listener takes values of up to about 4000 bytes. "`TXT` answers with each challenge
value that corresponds to the challenge name" (README.md:113) so fails for values
that ACME does not use: its own have 43 bytes. `DataReadsBack` says what holds of a
value of any length: it is there, behind a byte, and is one string exactly if it has
up to 255 bytes.

Five more things came up that no run is spent on:

* `label_at` takes any byte for a length (dns/query.rs:124-142). A pointer to a byte
  of 64 or more yields a label that no resolver takes for one, in the question and
  in each answer. `MatchesQuery` says so: such a question is not found, and every
  other one is.
* An IPv6 address in `CERTBOT_DNS_CHAMP_DNS_ADDR` is kept in the first slot
  (config.rs:128-130), and an IPv6 `--dns-addr` goes to the second (164): the server
  listens on both, although "Arguments take precedence" (README.md:83). It is never
  told in an AAAA answer either (214-220). `ArgumentsTakePrecedence` and
  `AdvertisedIsBound` therefore speak of addresses in the slot for their family.
* `Time::from` counts months from 0 (time.rs:134), as the C function it is taken from
  does, and `Display` prints the field as it is (time.rs:27): January is month 00, and
  every month is one too low. `FollowsCalendar` is about the fields.
* A variable that lists several addresses, as README.md:88 allows, is ignored
  without a word.
* In a debug build the IPv6 default is `::1`, which is told in AAAA answers even
  if its socket, which is optional, could not be bound. The instance has the
  defaults of a release build, and `ReleaseBuild` states what the proof of
  `AdvertisedIsBound` needs of them.

What `NoLostWakeup` does not speak of is a queue whose drain an error has cut short
(main.rs:157, 168): it stays until something else arrives there, as the code has it,
and `stranded` keeps it apart.

## Proofs

All proofs are for arbitrary constants under the assumptions stated in the
modules: `LimitsAssumption` (a finite set of addresses; a block no shorter than
a window; a limit from 2 to 255) and the same for the server, `ServerLimits`;
`ListAssumption`; `ServerAssumption`, which also says that `None` is no response
and no status code; `OrdersAssumption` (certbot asks for at least one challenge
and for no more than the list holds; the strings of a challenge come through
`challenge_from_req` as they are; the listener has a connection more than its
queue holds); `QueryAssumption` (a message has its header; the label
`_acme-challenge` is not empty); `ResponseAssumption` (values are shorter than the
4096 bytes an HTTP head is read into, addresses have 4 or 16 bytes, the answers
can be counted in 16 bits); `TimeAssumption`; `StartupAssumption` (the default addresses have
the families of their slots, and the one for IPv4 is not private) and
`ReleaseBuild`. TLC evaluates each of them in the runs.

`RateLimiterProofs`. `TypeOK` is inductive as it stands, and bounds the counter.
`SizeBounded` needs only that `Settle` adds at most one address to a table below
its bound (`FS_AddElement`, `FS_Subset`). `BlockHolds` and `ExpiredIsServed` are
action properties over `TypeOK`. `SlidingWindow` is not inductive: one must know
how much of the history the entry of an address still accounts for. `HistoryInv`
says it for each kind of entry. Under `KnownSince(start, count)` the last
`count` queries are not before `start`, the others not after it, and those more
than `RATE_LIMIT - 1` further back are a whole window before it; under
`BlockedUntil(end)` all but the last `RATE_LIMIT - 1` are a window before `end`,
which is where the assumption that a block is no shorter than a window is used;
without an entry, all but the last `RATE_LIMIT - 1` are a window old. Each
way `increment` returns is one lemma, and so is the purge. `BlockIsJustified`
follows from the same invariant. The bound is `2 * (RATE_LIMIT - 1)`, not
`RATE_LIMIT - 1`: windows start with a query and are reset, so the end of one and
the beginning of the next may be close together.

`ChallengesProofs`. `Kept` is not inductive, since it does not say where a
challenge stands. `AllPlaced` does: no further from the back than there were
registrations after it. `PushedFacts` and the lemmas on `At` say where entries
move in `set` and `cleanup`; that a deletion shortens the list if it finds
something; and what `named` yields. That the places of a list can be put in order
at all is a matter of counting the places up to each one (`AtExists`).

`ServerProofs`. `NoLostWakeup` is inductive together with `LoopInv`, which ties
the token and the events at hand to the place in the loop. There is a lemma for
each group of actions. `OnlyWithinLimit` needs that the table is a function on the
addresses (`LimitInv`) and, from `LoopInv`, that what is received is one of
`Datagrams`. `ChangesConfirmed` is an action property of `Next` alone.

The same module proves the refinement. The server implements `Champion`, and `NothingWithheld` and
`NothingInvented` are invariants. The invariant `PromiseInv` has four parts: that
of the loop; `ConnInv`, without which it would not be known that what
`handle_http` registers is a challenge; the invariant of `ChallengesProofs`, used
through an instance of that module; and `AnswerInv`, that a response exists only
while it is sent and tells the truth about the list as it is. `AnswerSteps` sorts
the actions by what they do to the list and to the response. A registration maps
to `Register` (`SetRegisters`: a full list loses its front, which costs no
challenge if the list holds it again), a deletion to `Delete` or, if it finds
nothing, to a stutter (`CleanupDeletes`), `RespondTo` to `Answer`, `SendTo` to
`Deliver`, `Bind` to `Start` and the end of the process to `Stop`; every other
step changes nothing for `Champion` (`Unnoticed`).

The type invariant of the server (`ServerTypeCorrect`) adds `ShapeInv`: which of
connection, response and status is at hand at which place of the loop, and the
limiter's own `TypeOK`, which the lemmas on `RateLimiter` keep as they do in the
proofs of that module.

`SystemProofs`. `PluginIsClient` shows first that the two processes together
implement `Server`'s specification: the plugin's connection is one of `Conns`,
and its steps are a client's. Everything proved of the server so holds here too.
`ConfirmedIsRegistered` and `DeletedStaysAway` are far from inductive: that a
challenge is in the list depends on which requests are still in the accept queue,
the ones given up by this run and by earlier ones included. `SysInv` says so:

* `QueueInv`: each connection is in the queue at most once, with a request;
* `CallInv`: the request under way is the last of the queue, and by the time it
  has a reply the queue is empty, since the one thread serves it in order. This
  is the heart of the matter: a request that was given up is handled *before*
  the next one is answered;
* `OrderInv`: what is still to do is the rest of the order;
* `PerformInv`: once a challenge is confirmed nothing but the plugin's own
  request is in the queue, and the list, unless the server was started again, ends
  with the challenges done so far, in their order. No other client registers
  meanwhile, and an order fits in the list, so none of them is pushed out;
* `DeleteInv`: once a deletion is confirmed, all that waits are deletions.

`ThreadOnQueue` sorts the server's steps by what they do to the queue;
`OwnIsServed` and `OtherIsServed` are the two cases in which a request is
handled, and there is a lemma for each step of the plugin.

`DnsProofs` is about messages of any length and content. `ReaderInv` has the type
invariant; `Whole`, that no label but the last is empty, and that the question
stands behind a name that is complete; `ReadingEnds`; `Begins`, how the bytes of
the name begin, for `ParentIsName`; and `Copied`: as long as no pointer was
followed there is a sequence of positions at which the labels stand one behind
the other (`Starts`), and the name put together so far is what the message has up
to one of them. `EchoesQuestion` is `Copied` at the end, with the type and the
class written as they were read (`BytesBack`). The theorems are stated for `RSpec`,
the whole way from a message to its response, which implements the reader's
specification (`ReaderSteps`). `ResponseFits` is about the response before it is
serialised: whatever is added in whatever order, it has the id and the flag of its
message, answers only a valid question for a challenge, and says `NoError` exactly
if it has an answer.

`WrittenNamesAreRead` goes the other way, from what a message says to what is made of
it. `PlainEnd` is a recursive function; that there is one as its definition has it
(`PlainEndExists`) is proved by induction on the distance from the end of the
message. The invariant `PlainInv` then says: while no pointer was followed and all
labels are ASCII, what is left of the name is written out exactly if all of it is
(`Tracks`); and if it is, with a type and a class behind it, nothing else can have
happened so far. Each step of the reader over such a label is one step of `PlainEnd`
(`LabelIsPlain`), and where the name goes on there is such a label (`GoesOn`), which
rules out every way to fail but one, the limit.

`ResponseProofs` is about the bytes of the response. `Holds(w, p, s)` says that a
sequence stands in another one at a position; names are described by the set of
positions at which their labels begin (`IsName`), and a name can be read if each of
its labels has less than 64 bytes (`IsReadable`). Where such a name stands in a
message, `NameEnd` finds its end (`NameEnds`); where one stands that cannot be read,
it finds none. The decoder,
`FlattenSeq` and the positions of records are recursive; each is unfolded by induction
on the naturals, which is cited for a set (`NatsInduct`, from the library's `WFMin`). The
inductive invariant `MessageInv` is that of the reader, `NameInv`, which has a
position in the name for each label that was put into it (`Placed`) and that a label
without a pointer has less than 64 bytes, `ResponseInv` and `WireInv`, which has what each answer is made of
and that what is sent is `to_bytes` of it. `RTypeOK`, `MatchesQuery`,
`AnswersReadBack` and `DataReadsBack` follow state by state, for any labels that
pointers lead to and for values of any length below 4096.

`HandlerDecides` ties those bytes to `DnsHandler`, on which all that is proved of
`Server` rests. Its invariant `DecisionInv` says what is known of a message at each
stage (`Routed`), that only TXT questions get more than one answer (`Few`), and which
code is sent after which checks (`Coded`). `found`, which `DnsHandler` takes from the
list, is whether there is an answer; the values are the strings of the TXT answers,
each of them one of `Values`.

`TimeProofs`. A day is described by the year that starts in March, the month counted
from March and the day of the month (`IsDate`). A day has one description
(`DateUnique`), which is the one `from` computes with its divisions by 400, 100 and 4
years and their corrected last days (`DateFound`), and the description of the day after
is that of the next day of the calendar (`NextDate`). The time of the day is a number
whose digits carry (`Carry`). `FollowsCalendar` is so proved for every day before and
after the epoch, and for any number of hours, minutes, seconds and parts of a second.

`StartupProofs`. The properties speak of a process that serves; `StartInv` says
what each step up to there has done. `SlotIsGiven`: if an address of a family was
given alone, its slot has an address that was given, whatever came after it.
`NotFromList`: a private address in a slot is from the environment or was given
alone. `Configured`: what `parse_config` leaves, in particular that a socket is
optional only if it is the default for IPv6 and no address was given. `Sockets`:
what is bound before each step of `main_loop`. `SlotKeeps` is the step of a list of
addresses; the five properties follow from the invariant state by state.

Only model-checked is liveness, which is out of the prover's reach: `RunsEnd`,
`DatagramsHandled`, `ClientsHandled`. Every other property of the passing runs is
proved. Inductions over data are on sets of naturals, since the library's theorems
that take a predicate cannot be applied: the recursive functions are first shown to
exist as they are defined, then to have the property on each prefix. The three
violations are of properties that the code does not have.

## Not modelled

* `logger.rs` and `Display` of `time.rs`: they format output and keep no state the
  server acts on. The usage text and the wording of errors.
* The size of a response: there is no limit of 512 bytes and no TC bit in the
  code (response.rs:89); what `send_to` refuses is logged and dropped.
* The lookup key joins labels with dots (query.rs:64-67); `DnsQuery` keeps the
  labels. Two names that differ only in a dot within a label have one key.
* More than one thread, which the program does not have, and `httparse`, mio,
  certbot, `getpwnam`, `setuid` and the kernel, which are external and modelled
  from their use.

## Plan

What could be added:

1. The key of the lookup (query.rs:64-67) as the labels joined with dots, and which
   names share one; with it, `CaseFold` of `Server` for names as they are on the wire.
2. The size of a datagram, as a bound on what `SendTo` can deliver.
