# espBode: a TLA+ verification project

espBode runs on an ESP32 with a W5500 Ethernet chip. It makes a FeelTech
function generator look like a Siglent one to an oscilloscope: it answers the
oscilloscope's VXI-11 calls over TCP and turns the SCPI text in them into
commands on a serial line. Everything below is about the C++ source in `src/`.

## 1. The system

| part | source | state | operations |
|---|---|---|---|
| main loop | `espBode.ino` | which server runs | `setup`, `loop` |
| VXI server | `vxi_server.*` | `client`, `vxi_port`, the listening server, `read_type`, `rw_channel` | `begin`, `allocate`, `available`, `loop`, `handle_packet`, `write`, `read` |
| RPC bind server | `rpc_bind_server.*` | the UDP socket and the TCP server on port 111, the response buffers | `loop`, `process_request` |
| RPC packets | `rpc_packets.*`, `rpc_enums.h` | one global buffer for each transport and direction | `get_*_packet`, `send_*_packet` |
| network layer | `net_compat.h` | an `EthernetServer` object | `begin`, `stop`, `accept` |
| telnet server | `telnet_server.*` | `client`, `line_buffer`, `pass_through`, the stream's copy of the client | `loop`, `onTelnetInput`, `TelnetStream::write` |
| debug output | `debug.*` | line buffer, channel, filter | `write`, `flush` |
| SCPI interpreter | `vxi_server.cpp`, `scpi.h` | the line being carried out | `parse_scpi`, `process_parameters`, `get_id` |
| AWG driver | `awg_fy*`, `awg_server.*`, `utilities.h` | `m_retry_count`, the UART's buffer | `set`, `get`, `wait_for_serial` |
| port cycling | `utilities.h` | a value in a range | `goto_next` |
| wave tables, LED, pins, addresses | `siglent_waves.h`, `fy_waves.h`, ... | constant data | none that is used |

**How they interact.** There is one thread. `loop()` calls the telnet server,
the bind server and the VXI server in turn, and each call may wait inside: for
write space in a socket, or for the function generator. Meanwhile hosts connect,
send, close, reset and vanish. The servers share

* the eight sockets of the chip. A client object is an *index* into that table,
  not a connection: when the socket is closed and reused, the object names
  whatever is there now;
* the telnet stream, into which every server writes its debugging text;
* the serial line, which the VXI server uses to set parameters and the telnet
  server in pass-through mode;
* `VXI_Server::client`, which tells the bind server whether to serve at all.

**What is hard.** A port is granted by one server and used on another, with the
network in between; closing a link reopens the server on the next port without
closing the old listeners (`NetServer_ext::stop()` only deletes an object); socket numbers outlive their sockets; scopes retry;
connections end without `DESTROY_LINK`; replies on the serial line carry no mark
of the command they answer; all waiting is unbounded. `PROJECT.json` lists each
hazard at its line, with the properties that are about it.

**What makes each part correct.** The bind server hands out the port on which
the next link is opened, only while there is none, and answers every request it
reads. The VXI server serves its own connection only, cuts its bytes into the
packets that were sent, answers each call once and to its caller, and has the next port open when a link has ended. The
telnet server makes the lines that were typed, session after session. No two
servers hold one socket and ports 23 and 111 stay open. `set()` tells the truth
about the instrument, leaves the serial line in step, and returns. A line of
SCPI does to the instrument what it says and nothing else.

## 2. The modules

Four specifications. The first is composed of modules that are extended in
turn, the second of two; the others look closer at the bytes of one connection.

```
W5500  CyclicPort                    AwgFy ------- MCAwgFy    RpcFraming --- MCRpcFraming
  |   \   |                            |    \                     |
Telnet  Peers                       ScpiSession  AwgFyProofs  RpcFramingProofs
Stream    |                            |     \
  | \   VxiServer (TelnetStream,    MCScpiSession  ScpiProofs  TelnetInput --- MCTelnetInput
  |  \     |        CyclicPort)                                    |
  |  RpcBindServer (VxiServer, Peers)                        TelnetProofs
TelnetServer  |
      \       |
       EspBode ---- INSTANCE ---> PortBroker        MCEspBode
          |
       EspBodeProofs (EspBode, W5500Proofs)
          |
       CallProofs, ScopeProofs
```

### The network side

**`W5500`** is the socket table of the chip and the calls of the Arduino Ethernet
library on it. Both are outside the repository; they are modelled from how
`net_compat.h` and the servers use them. `Available` is
`EthernetServer::available()`: it sweeps half-closed sockets of the port that
have nothing to read, finds a connection with data, and opens another listener
when none is left, *if a socket is free*. `Begin` takes the first free socket or
fails in silence. `Stop` waits for the close to complete, or forces it, so the
socket is free when it returns; a socket that the sweep disconnects is free only
when the peer has acknowledged (`LastAck`).

**`CyclicPort`** is `cyclic_uint32_t` with the bounds of `rpc_enums.h`.

**`TelnetStream`** is the stream's copy of the client. `Log` is one line of
debugging text: if the socket of the copy is connected, in whosever hands it is
by now, text goes into it (`txt`).

**`VxiServer`**: one call of `loop()` is one action unless something in it waits.

| action | code |
|---|---|
| `VxiAccept` | `loop()` without a client: `accept()` |
| `VxiTimeout` | `get_vxi_packet` reads nothing and the length stays 0 |
| `VxiReceive` | `get_vxi_packet` and the dispatch of `handle_packet` |
| `VxiAwg` | the serial exchange inside `write()` |
| `VxiReply` | `send_vxi_packet`, and `begin_next()` after DESTROY_LINK |

`vxiAt` says between which of them the program waits. The hosts may act there,
and the other servers may not. A write request may or may not reach the
instrument, as its SCPI text decides; `AwgFy` and `ScpiSession` say what happens
when it does. A third outcome is in `EspBode!Restart`: `write()` reads a null
pointer and the processor starts again.

**`RpcBindServer`**: `BindBusy`, `BindUdp`, `BindTcp`, `BindNone` are the ways
through `loop()` up to the reply, `BindReplyUdp` and `BindReplyTcp` the sending
of it. `process_request` is the set of responses the code can assemble: for a
refused request the port is a local variable that nothing has set, so it is any.

**`TelnetServer`**: `TelnetLoop` is the whole of `loop()`: the session that is
over, `accept()`, `attach()` and the greeting, and the input. A line is
PASSTHROUGH or another.

**`Peers`** is the other end: oscilloscopes (`Scopes`) and telnet users. A scope
asks for a port by UDP or TCP, connects to the port it is granted, makes one call
at a time and destroys the link. `Faults` lets it stray: ask and dial again
(`retry`), close early (`drop`), be reset (`abort`), vanish (`vanish`), lose a UDP
reply (`lost`) and send a write that restarts the program (`malformed`: an empty line, a
command of blanks, a name at the end); `silent` is an instrument that stops answering.

**`EspBode`** composes them. `turn` is the server whose `loop()` runs, `loop` the
program, `Env` the hosts. `Init` is the state after `setup()`: sockets 0 to 3 are
the VXI listener, the UDP socket, and the listeners on 111 and 23 (`SetupTable`).
`Restart` takes a program that is in `write()` back there: `setup()` resets the chip, so the
connections and the datagrams are gone; what the hosts know stays.

**`PortBroker`** is the abstract specification of the two servers together: a
link is free or open; a port is granted while it is free, is the one the next
link is opened on, and moves on when the link is closed, or back to the first port
when the program restarts. `EspBode!Broker`
is the refinement mapping: the link is open when `client` holds a socket. While the
first port is in use a restart looks the same to the broker as a close that keeps
the port; `ImplementsBroker` is proved for every `Faults`, and without "malformed"
the broker has no restart to excuse such a close.

### The bytes of a connection

The network side has whole calls and whole lines. How they come out of the
bytes is the business of two modules of one connection each.

**`RpcFraming`** is `get_vxi_packet` inside `VXI_Server::loop`. A unit is two bytes,
so the four bytes of the length are two units and can be cut in half. A body that
is too long is read as far as the buffer goes, and what is left of it is the next
prefix; the buffer is not cleared, so a body that stops half-way is completed with
the bytes of an earlier request. `length` may then be anything (`LengthOf`). `at` is
where `loop()` is, `buffer` the request buffer, whose units say of which
packet and position they are, and `sound` says that nothing has strayed on
this connection yet. `Faults`: the network pauses longer than
`readBytes` waits (`stall`), a length field of four bytes (`short`; 1 to 4 pass the test
`len > 0` of `loop()` and fail the test `len > 4` of `get_vxi_packet`), a packet that is
too long (`long`). After one of them the server may carry out and answer a request
a second time: with a short length it handles the buffer as it is, and so it does when the body
does not come. The model has these behaviours, and no property says that they do
not happen: `InStep` and `CallAnswered` are about connections on which nothing has strayed. A DESTROY_LINK ends the connection, and the next one begins
with an empty pipe but with the old buffer.

**`TelnetInput`** is `Telnet_Server::loop` on the bytes of one session after
another, and `onTelnetInput`. `pass_through` is static and `line_buffer` a member: what
they hold when a session begins is what the session before has left. PASSTHROUGH
is one letter in two cases. An IAC is read before it is known whether
its two bytes are there; when they are not, `loop()` returns, and the comment at
`telnet_server.cpp:44` says that the next loop will finish it. It does not: the
command and the option become characters of the line, which the run
`telnet_split` shows. `split` records it,
`LinesAsTyped` is about sessions in which it has not happened, and
`OnlyOptionsAdded` says that nothing worse comes of it.

### The instrument side

**`AwgFy`** is `AWG_FY::set` with its retries, the `get` that verifies, and the
serial line as two queues (`toAwg` of commands, `wire` of reply tokens) and the
receive buffer (`rx`). A number is two tokens, its first byte and the rest,
because `wait_for_serial(true)` empties the buffer at a moment when only a part of
a reply may be there. `Same` is the comparison of what was set with what was
read. The code divides an integer by a power of ten on one side and multiplies
one by the reciprocal on the other; computed in IEEE double arithmetic with the
code's formulas, the two differ for 61527 of the 200001 amplitudes from 0 to 20 V
in steps of 0.1 mV. `Inexact` is the set of such values. A value is limited to the
precision of the translation table before it is sent: `Limited` works on ticks, of
which `STEP` make one unit of the precision. The code adds a half and converts to
`uint64_t`, so a number between -1 and 0 becomes 0; for smaller ones the conversion
is undefined, and 0 and `Huge` (a number too large to print, which Arduino
prints as "ovf" and the instrument does not take) are what the build produces. `alone`
says that none of the `Faults` has happened so far. The instrument
(`Execute`, `Arrive`) is external: it carries out commands in order,
acknowledges a set with a newline and ignores a value it does not take.
`Faults`: a telnet user on the same line (`user`; in pass-through mode every line
but PASSTHROUGH is sent as it is, so `UserTypes` queries, sets, or sends a line the instrument does
not know, as the constant `Typed` says), an acknowledged empty line
(`blank`; `get` ends its command with two newlines), a reply that pauses for longer
than `readBytesUntil` waits (`stall`).

**`ScpiSession`** extends it with `VXI_Server::write`: `Write` is `parse_scpi` up to
the channel, `Command` and `Parameter` are one turn each of its loop and that of
`process_parameters`; `Parameter` calls `set` and goes on when it has returned.
The telnet user types between two writes, which may be between two lines for the same parameter. A
line is a sequence of commands of words. `Begins` says with which table entries
a word begins, which is what `get_id` tests, and `NumberOf` what `sscanf` makes of
it. A null pointer that is read restarts the processor (`Restart`): `write()` reads
one for an empty line, a command of blanks and a name at the end. A line is
`WellFormed` when every command has a word, every number is where one is expected,
and no word that is taken as a value is also the name of a parameter: the code
takes the word after WVTP unseen, and of `FRQ AMP 1` takes AMP for the number.
`read_type` is what `parse_scpi` makes of a line; `VXI_Server::read` answers with the
identity whatever it holds (`vxi_server.cpp:191-197`), so `ReadTypeOfLine` is about the
parser and not about a response.

Definitions marked "Mutant:" are altered forms of the definition that follows
them. No behaviour uses them; each stands for a plausible mistake, and a run's
property fails when the definition is replaced by it.

## 3. The runs

| run | instance | what it shows |
|---|---|---|
| `link_cycle` | 1 scope, 7 sockets, ports 9010-9012, malformed, fair | `GrantDialable`, `NoOrphan`, `FreshListener`: through the wrap-around of the ports, restarts, and with the table full of abandoned listeners, the granted port takes the connection; `LinkEnds`, `EveryCallAnswered`: and every link ends, every call is answered or its connection is lost by a restart |
| `telnet` | 1 scope, 1 user | `OwnConnection`, `NoSharedSocket`, `ListenersKept`: three servers on one table |
| `link_faults` | retry, drop, vanish, lost, silent, malformed | `TypeOK`, `NoLostCall`, `ReplyToCaller`: a call that was read is answered, once and to its caller, or lost with its connection |
| `resets` | 2 scopes, resets and restarts at any moment | `BrokerSpec`: also when both scopes hold the same grant and race |
| `framing` | 2 packets, a buffer of 7 units, all faults, fair | `InStep`, `CallAnswered`: while packets are regular and in time, each is handled whole, once, and answered |
| `telnet_lines` | 3 lines or negotiations in each of any number of sessions | `LinesAsTyped`, `OnlyOptionsAdded`, `AwgGetsLines`: sessions do not leak into each other |
| `awg_set` | 4 values, user, blank, stall, fair | `InStep`, `VerifiedWithin`, `FailedIsRefused`: alone on the serial line, `set()` is in step and truthful; `TypeOK`, `SetReturns`: whatever is on the line, it returns and keeps to its retries |
| `scpi_lines` | 12 lines, 8 of them odd, and a user who queries and sets | `WriteApplied`, `ReadTypeOfLine`, `OnlyNamed`: at its end the instrument has, or is about to have, what the line says, and was sent no other set |

Four runs end in a violation; each shows that a comment says something the
code does not do (`PROJECT.json`, "findings").

| run | property | what happens |
|---|---|---|
| `stray_text` | `TextOnlyOnTelnet` | debugging text is written into an RPC connection that has taken the socket of a telnet session |
| `link_dropped` | `DatagramRead` | a link closed without DESTROY_LINK leaves the server busy for ever |
| `awg_inexact` | `TakenIsVerified` | 3.3 V is set three times and reported as not set |
| `telnet_split` | `NegotiationsFiltered` | a negotiation that arrives in two parts ends up in the user's line |

**Bounds.** `UdpDepth` (datagrams waiting) and `ConnLimit` (connections of one
scope) are 1 in every run: the servers look at one at a time, and a scope
that retries sends the next datagram when the first has been read, so that the two
answers still go out one after the other. `link_cycle` has seven sockets
and three ports, the chip eight and the code a range of ports: four sockets are the servers', so
three are left for abandoned listeners, as many as there are ports, and the ports wrap around while
listeners of the first round are still in the table and the table is full. The
other runs have fewer ports (two are enough for a grant to be out of date) and
no more sockets than their actors can use up.
`Depth` bounds what is outstanding on the serial line when the user types, and
`Depth + 1` when a call begins; within a call nothing is bounded. One token of
left-over input is enough to put every later reply of a slow instrument one
step behind. `scpi_lines` has one retry and not two: the second repeats the first.
There is one value of each kind: rounded up, taken but never equal, refused,
negative. `framing` has two packets, the second being the one that meets what the first has
left, and a buffer of seven units, so that bodies of 2 to 6 units are the
short one, the header alone, the header with some data and with all there is room for, and
one too many. `telnet_lines` has a line buffer of two bytes and
lines of one to three; sessions are not bounded, only the three items of each. Three
are enough to turn the pass-through on, send a line and turn it off.

**Deadlock** is checked except in `link_faults` and `resets`: there the program may wait
for ever for a socket that was reset or for the instrument, which is what the
code does (`rpc_packets.cpp:148, 180`, `utilities.h:40`).

**Fairness.** `loop` is weakly fair: the thread is never descheduled.
`Finish`: the peer's stack acknowledges a FIN. `Destroy` is about the
oscilloscope: one that holds a link and is not kept waiting sooner or later
destroys it (strong, because its link is busy again and again in between);
without it a link lasts as long as the scope likes. In `AwgFy`, `set` is fair
like `loop` and `Awg` is the instrument answering; in `RpcFraming`, `loop` is the
program and `Arrive` the network delivering what was sent. Nothing is assumed of the
hosts' other actions.

## 4. The proofs

`tlapm` checks `W5500Proofs` (lemmas on the operators of the socket table),
`EspBodeProofs`, `CallProofs`, `ScopeProofs`, `AwgFyProofs`, `ScpiProofs`,
`RpcFramingProofs` and `TelnetProofs`. The theorems of the first four hold for every number of sockets, every
range of ports and, where not said otherwise, all sets of hosts and all faults; those of `AwgFyProofs` for every number of channels and
retries, every precision and all values and faults; those of `ScpiProofs` for all
of that and for all lines and words; those of `RpcFramingProofs`
for every size of buffer and header, every number of packets and all faults; those of
`TelnetProofs` for every size of the line buffer, all lines, any number of lines
and negotiations in any number of sessions, and all faults. Every
invariant and action property of a passing run is a theorem, under the hypotheses
that the table names.

| theorem | statement |
|---|---|
| `TypeCorrect` | `Spec => []TypeOK` |
| `BindInvariant` | `Spec => []BindInv` |
| `ImplementsBroker` | `Spec => BrokerSpec` |
| `ClientOwned` | without resets, `Spec => []OwnConnection` |
| `ServersApart` | without resets, `Spec => []NoSharedSocket` |
| `PortReopened` | `Spec => FreshListener` |
| `AnsweredToCaller` | without resets, `Spec => []ReplyToCaller` |
| `CallsNotLost` | without resets, `Spec => []NoLostCall` |
| `ListenersStay` | without resets, `Spec => []ListenersKept` |
| `GrantedPortOpen` | for one scope that is `Orderly`, `Spec => []GrantDialable` |
| `NeverOrphaned` | for one scope that is `Orderly`, `Spec => []NoOrphan` |
| `ReadAsLineSays` | `ScpiSpec => []ReadTypeOfLine` |
| `WriteIsApplied` | `ScpiSpec => []WriteApplied` |
| `OnlyNamedIsSet` | `ScpiSpec => OnlyNamed` |
| `AwgFyProofs!TypeCorrect` | `Spec => []TypeOK` |
| `RepliesInStep` | `Spec => []InStep` |
| `VerifiedHolds` | with `Retry > 0`, `Spec => []VerifiedWithin` |
| `FailureHasReason` | `Spec => []FailedIsRefused` |
| `RequestsInStep` | `Spec => []InStep` of `RpcFraming` |
| `TakenAsTyped` | `Spec => []LinesAsTyped` |
| `SplitAddsOptions` | `Spec => []OnlyOptionsAdded` |
| `AwgGetsTheLines` | `Spec => []AwgGetsLines` |

*Refinement.* That a port is granted only while there is no link, and that it is the next
link's, needs to know what was decided before the reply is sent. `BindInv` says that while
the bind server is sending its reply, the VXI server has no client and is idle, and a successful
reply carries `vxi_port`. This is where "one thread" enters: a reply that waits
for write space keeps the VXI server from accepting. With `BindInv` each
action of the program is a step of the broker or a stutter: a reply is a `Grant`,
`VxiAccept` an `Open`, `VxiReply` of a DESTROY_LINK a `Close`, a scope's dial or
refused dial a `Use`. A restart happens inside `write()`, when there is a link, and is the
broker's `Restart`.

*Ownership.* `OwnConnection` and `NoSharedSocket` follow from `OwnInv`: each
server's index, when it holds one, is a connection on that server's port, or,
for telnet, a socket that is over. It holds because only the server of a port
stops or sweeps connections of that port, and fails once a connection is reset
and its socket reused; hence the assumption that `Faults` has no `abort`. It is
needed: after a reset, `client` still holds the index, and the next `accept()` of
the telnet server may take that very socket for its listener.

*Reopening.* `PortReopened` is a fact about `begin_next`: after `Stop`, `Begin` finds
a socket, because the one that was stopped or a free one is there; after a restart
socket 0 is the listener.

*Calls.* `NoLostCall` and `ReplyToCaller` follow from `CallInv` of `CallProofs`. A socket is
`Handled` when a server is between reading from it and replying to it. In the
others a scope that waits has its call unread (`Pending`); in a handled one the call
has been read and still waits (`Taken`), and in the VXI server's it is `vreq`. All that
the servers do to other sockets leaves calls as they are or leaves a socket in
which nobody waits (`Kept`). `OwnInv` is needed for what is read and answered:
each server reads on its own port, and a listener that is dialled is in nobody's
hands.

*Listeners.* `ListenersKept` is inductive once `OwnInv` is known. A sweep that takes a
port's last connection away leaves a closing socket, which `Begin` finds, and the
only socket that is stopped is the VXI server's. The theorem holds for any number of sockets
from four; the chip's eight are not needed.

*The scope.* `GrantDialable` and `NoOrphan` are promises to one scope that keeps to the
protocol (`Orderly` of `ScopeProofs`: at most one scope, one connection at a time, no
retries, drops, resets or vanished hosts; lost replies, a silent instrument, writes that
restart the program and any users are allowed). Neither is inductive. `ScopeInv` adds where the scope is: while it
waits by UDP it has no grant and no connection (`AskInv`); while it has a grant it
has no connection on that port (`GrantInv`). Of the table it says that the scope
has one connection, to port 111 or to the current port, that nobody else has
one on a VXI port, and that the current port has either that connection or a
listener (`Reached`), so `client` is the scope's connection, and closing it
leaves none behind when the port moves on. All that the servers do besides
is `Steady`: it takes no listener and no connection that is open at both ends. A
restart takes the scope's one connection, so that it has neither a grant nor a
connection and begins again.

*Reads.* `ReadInv` says of a line that is being carried out that its commands are
split into those done and those left, and that `read_type` is decided by those
done. It assumes that no word begins with both BSWV? and OUTP (`WordAssumption`,
true of prefixes), and needs that BSWV? is searched for before BSWV.

*Writes.* `WriteApplied` looks at the moments between lines. `SetInv` says for
every moment of a line where the program is in it (`Walk`: word `p` of command `n`,
`Spot`), that the call of `set()` under way is for a parameter already reached, the
last one if the line is well-formed (`CallInv`), and that of the parameters reached
each has or will have the last value the line gives it (`Applied`). "Will have"
(`Ahead`) is either the value `set()` is about to send, or what the instrument
holds once it has carried out its queue (`Sent`): the last set for the parameter in
the queue decides, or the setting itself when there is none. Every other action
on the serial line keeps `Sent`: a query is no set, `Execute` takes from the front, and a
retry sends the same value once more. The telnet user may set the same parameter, and
does between the lines; `WriteApplied` therefore speaks of the end of a line, at which the line's
own sets are the last in the queue, and not of what the instrument has later. So neither what the user
typed before a line nor a result of `set()` taken from a wrong reply undoes a write. Three facts are assumed of the
constants: the numbers `sscanf` finds are values (`NumberAssumption`), 0, 1 and Sine are values
(`SineAssumption`) and the parameters of the tables are the
instrument's (`CodeAssumption`). `OnlyNamed` follows from the same invariant: only
`SendSet` queues a set, and `CallInv` says what it sends.

*Telnet lines.* `LineInv` follows each byte in the pipe back to the line it was
typed in: `Following` has for every place of the pipe the number of the line and how many of its bytes
have been read there, and what the line buffer must hold at the first
place (`Holds` after a split, `Exact` without one). `WholeInv` says that without
a split every command or option in the pipe has its IAC before it, so that it is
never read as a character. `TakenInv` is the same of the lines taken. The sessions are kept
apart by `Accept`, which empties the buffer: nothing is assumed of what the session
before has left in it. `Switched` of `AwgInv` is that `pass_through` is
its value at the beginning of the session, turned as often as a line that was
taken is the word; the count of the lines passed on is then a count of places.
The counts are cardinalities of intervals of places and are handled by the
library's lemmas on finite sets, not by induction.

*The serial line.* `InStep` of `AwgFy` only looks at the moments between commands.
`StepInv` of `AwgFyProofs` says where the one reply of the current command is
at every moment of `set()`: as a command at the instrument, on the wire, or, as far as it
has arrived, in the receive buffer; and that a value in it is the one the
instrument has. From it the three
properties follow together, because what `set()` reports is decided by the value
in the reply. `VerifiedHolds` assumes `Retry > 0` and needs it: with a count of 0
the code does not read back and returns true (`awg_fy.cpp:79, 150`);
`setup()` sets 2. `RoundedWithin` is the lemma that rounding moves a value by at most half a
unit; it is why the theorem speaks of values that are not negative.

*Framing.* `RequestsInStep` needs `InStepInv`: while nothing has strayed, the
pipe holds nothing, or the rest of the one packet the scope is waiting to have
answered, from the position at which the program reads next. A read that times out then finds the
pipe empty, and the length that was cleared before it keeps the old request from being handled.

**Model-checked only.** All liveness (`LinkEnds`, `EveryCallAnswered`, `CallAnswered`,
`SetReturns`), which is out of the prover's reach because fairness needs
`ENABLED`, and the four violations, which are behaviours of one instance.

**What the properties leave open.** `WriteApplied` says nothing of a value that the instrument refuses, or of a
line that is not well-formed. `OnlyNamed` covers such lines, but not the value of a
parameter after which the line has no number: there the code sets what the variable
happens to hold. A negative offset is in `AwgFy` and never reaches the instrument, although
`scpi.h:87` gives one as an example; `VerifiedWithin` speaks of values that are not negative. A request answered a second time
after a packet that strayed is in `RpcFraming`, and no property excludes it. That `pass_through` survives a session is
in `TelnetInput`, and `AwgGetsLines` counts from it. After a reset a server's index may
mean another server's socket: the theorems on ownership and calls assume that there is none.
`GrantDialable`, `NoOrphan` and `EveryCallAnswered` are true of one scope that
keeps to the protocol; with two scopes, one may hold a grant while the other's
link closes and the port moves on, and they fail.

## 5. What is not modelled, and the plan

Not modelled: the bring-up of the network in `setup()`; LED, pins, addresses;
the wave tables and the alternative `translate_wave`, which is not compiled; the
generated documentation; the contents of log lines; the digits of numbers and
the exponents of the translation table; the text of replies that the
pass-through copies to the user; option bytes of a negotiation that happen to be
a line end or another IAC. `get_bind_packet` over TCP repeats the code of
`get_vxi_packet` and has no model of its own bytes.

`RpcFraming` and `TelnetInput` stand beside `EspBode`, not under it: `EspBode` takes from
them that a peer that keeps to the protocol has its calls and lines read whole.

What is left: `DebugStream`, with its filter, its channel and text cut at
`DEBUG_BUFFER_SIZE`. It is a buffer of one thread and its text is only for reading.
