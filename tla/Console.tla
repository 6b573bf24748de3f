--------------------------------- MODULE Console ---------------------------------
(***************************************************************************)
(* The two terminals of the menu: the main loop (main.rs) with its telnet  *)
(* socket and its UART, the output both share (Output, menu.rs), and the   *)
(* panic handler (panic.rs).  The network runs inside of poll only, so the *)
(* rest of a turn of the loop sees a socket that keeps still; the UART     *)
(* sends at any time.                                                      *)
(*                                                                         *)
(* External: the TCP socket of smoltcp and the client behind it; the UART, *)
(* which has a queue; the Runner of the menu, which prints something for   *)
(* each byte it gets: an echo, an answer with its line, or a command that  *)
(* panics or reboots.  The n-th print is the character n, and an answer is *)
(* that and the end of a line.                                             *)
(***************************************************************************)
EXTENDS Integers, Sequences

CONSTANTS
  OutSize,        (* Of out_data: 500.                                     *)
  RxSize, TxSize, (* Of the socket's buffers: 256.                         *)
  UartDepth,      (* Bytes the UART holds.                                 *)
  Info,           (* Bytes of what a panic says,                           *)
  Done,           (* and of "Panic done!": 12.                             *)
  MaxPrints, MaxSessions, MaxRestarts (* Bounds for TLC.                   *)

ASSUME ConsoleAssumption ==
  /\ {RxSize, TxSize, UartDepth, Info, Done} \subseteq Nat \ {0}
  /\ OutSize \in Nat \ {0, 1} /\ UartDepth <= 2 * Done
  /\ {MaxPrints, MaxSessions, MaxRestarts} \subseteq Nat

NewLine == 0
Return == -1
Greeting == <<-2, -3>>

VARIABLES
  pc,            (* Where main is, or the panic handler.                   *)
  back,          (* Where it goes on when all is printed.                  *)
  text,          (* What is being printed,                                 *)
  todo,          (* and the bytes the UART has yet to get.                 *)
  out_data, telnet_active,
  (* External: the socket, the client and the UART.                        *)
  tcp, rx, tx,
  received,      (* What the client of the session has got.                *)
  uart,
  (* History.                                                              *)
  told,          (* Bytes of the panic's message that left the UART.       *)
  printed,       (* What was printed in this session.                      *)
  dropped,       (* Something of it was not in out_data's room.            *)
  prints, sessions, restarts

socket_vars == <<tcp, rx, tx, received>>
uart_vars == <<uart, told>>
print_vars == <<back, text, todo>>
session_vars == <<printed, dropped>>
bounds_vars == <<prints, sessions, restarts>>
console_vars == <<pc, print_vars, out_data, telnet_active, socket_vars, uart_vars, session_vars, bounds_vars>>

Other(n) == [k \in 1..n |-> "other"]

(* TcpSocket::new, with two buffers of its own.                            *)
SocketInit == tcp = "Closed" /\ rx = <<>> /\ tx = <<>> /\ received = <<>>

ConsoleInit ==
  /\ pc = "print" /\ back = "poll" /\ text = <<>> /\ todo = Other(1)
  /\ out_data = <<>> /\ telnet_active = FALSE
  /\ SocketInit
  /\ uart = <<>> /\ told = 0 /\ printed = <<>> /\ dropped = FALSE
  /\ prints = 0 /\ sessions = 0 /\ restarts = 0

(***************************************************************************)
(* External: the UART, and what the network does in a poll.                *)
(***************************************************************************)
UartSend ==
  /\ uart # <<>> /\ uart' = Tail(uart)
  /\ told' = IF Head(uart) = "info" THEN told + 1 ELSE told
  /\ UNCHANGED <<pc, print_vars, out_data, telnet_active, socket_vars, session_vars, bounds_vars>>

Network ==
  /\ pc = "poll"
  /\ UNCHANGED <<pc, print_vars, out_data, telnet_active, uart_vars, session_vars, prints, restarts>>

(* Bound for TLC. *)
MoreTyped == prints + Len(rx) < MaxPrints

Syn ==
  /\ Network /\ tcp = "Listen" /\ sessions < MaxSessions
  /\ tcp' = "SynReceived" /\ received' = <<>> /\ sessions' = sessions + 1
  /\ UNCHANGED <<rx, tx>>

Ack ==
  /\ Network
  /\ \/ tcp = "SynReceived" /\ tcp' = "Established"
     \/ tcp = "LastAck" /\ tx = <<>> /\ tcp' = "Closed"
  /\ UNCHANGED <<rx, tx, received, sessions>>

Rst ==
  /\ Network
  /\ \/ tcp = "SynReceived" /\ tcp' = "Listen"
     \/ tcp \in {"Established", "CloseWait", "LastAck"} /\ tcp' = "Closed"
  /\ UNCHANGED <<rx, tx, received, sessions>>

Type ==
  /\ Network /\ tcp = "Established" /\ Len(rx) < RxSize /\ MoreTyped
  /\ \E key \in {"key", "enter", "nul"} : rx' = Append(rx, key)
  /\ UNCHANGED <<tcp, tx, received, sessions>>

Fin ==
  /\ Network /\ tcp = "Established" /\ tcp' = "CloseWait"
  /\ UNCHANGED <<rx, tx, received, sessions>>

Take ==
  /\ Network /\ tcp \in {"Established", "CloseWait", "LastAck"} /\ tx # <<>>
  /\ received' = Append(received, Head(tx)) /\ tx' = Tail(tx)
  /\ UNCHANGED <<tcp, rx, sessions>>

PollEnd ==
  /\ pc = "poll" /\ pc' = "telnet"
  /\ UNCHANGED <<print_vars, out_data, telnet_active, socket_vars, uart_vars, session_vars, bounds_vars>>

(* Of TcpSocket. *)
IsOpen(state) == state # "Closed"
IsActive(state) == state \notin {"Closed", "Listen"}
CanSend == tcp \in {"Established", "CloseWait"} /\ Len(tx) < TxSize

(* What a vector takes of all that is pushed, one by one.                  *)
Fitting(chars) == SubSeq(chars, 1, IF Len(chars) < OutSize THEN Len(chars) ELSE OutSize)

(***************************************************************************)
(* The part of the loop for telnet.                                        *)
(***************************************************************************)

\* Mutant: out_data is not cleared before the greeting.
GreetedBehind == Fitting(out_data \o Greeting)

(* clear and extend_from_slice                                             *)
Greeted == Greeting

(* listen on a closed socket clears its buffers.                           *)
Listen ==
  /\ pc = "telnet" /\ pc' = "session"
  /\ tcp' = IF IsOpen(tcp) THEN tcp ELSE "Listen"
  /\ rx' = (IF IsOpen(tcp) THEN rx ELSE <<>>) /\ tx' = IF IsOpen(tcp) THEN tx ELSE <<>>
  /\ telnet_active' = IsActive(tcp')
  /\ IF ~telnet_active /\ IsActive(tcp')
     THEN out_data' = Greeted /\ printed' = <<>> /\ dropped' = FALSE
     ELSE UNCHANGED <<out_data, session_vars>>
  /\ UNCHANGED <<print_vars, received, uart_vars, bounds_vars>>

\* Mutant: "Panic done!" is written once.
PanicTextOnce == [k \in 1..Info |-> "info"] \o Other(Done)

PanicText == [k \in 1..Info |-> "info"] \o Other(2 * Done)

(* What follows a byte that the menu gets: nothing for a nul; a command    *)
(* may panic or reboot.                                                    *)
Input(key, then) ==
  \/ /\ key = "nul" /\ pc' = then
     /\ UNCHANGED <<print_vars, prints>>
  \/ /\ key # "nul" /\ prints' = prints + 1
     /\ pc' = "print" /\ back' = then
     /\ text' = IF key = "key" THEN <<prints + 1>> ELSE <<prints + 1, NewLine>>
     /\ todo' = Other(Len(text'))
  \/ /\ key = "enter" /\ restarts < MaxRestarts /\ pc' \in {"panic", "reset"}
     /\ todo' = PanicText
     /\ UNCHANGED <<back, text, prints>>

\* Mutant: a client that is done is waited for.
MayRecvUntilClosed == IsActive(tcp)

MayRecv == tcp = "Established" \/ rx # <<>>

(* A turn that finds nothing to read and a client that is done closes.     *)
Session ==
  /\ pc = "session" /\ pc' = IF MayRecv THEN "receive" ELSE "send"
  /\ tcp' = IF ~MayRecv /\ CanSend THEN "LastAck" ELSE tcp
  /\ UNCHANGED <<print_vars, out_data, telnet_active, rx, tx, received, uart_vars, session_vars, bounds_vars>>

Receive ==
  /\ pc = "receive"
  /\ \/ rx # <<>> /\ rx' = Tail(rx) /\ Input(Head(rx), "receive")
     \/ rx = <<>> /\ pc' = "send" /\ UNCHANGED <<rx, print_vars, prints>>
  /\ UNCHANGED <<out_data, telnet_active, tcp, tx, received, uart_vars, session_vars, sessions, restarts>>

Send ==
  /\ pc = "send" /\ pc' = "serial"
  /\ LET room == IF CanSend THEN TxSize - Len(tx) ELSE 0
         sent == IF room < Len(out_data) THEN room ELSE Len(out_data)
     IN /\ tx' = tx \o SubSeq(out_data, 1, sent)
        /\ out_data' = SubSeq(out_data, sent + 1, Len(out_data))
  /\ UNCHANGED <<print_vars, telnet_active, tcp, rx, received, uart_vars, session_vars, bounds_vars>>

(***************************************************************************)
(* The serial terminal, what prints, and what restarts.                    *)
(***************************************************************************)
serial_keeps == <<telnet_active, socket_vars, sessions>>

Serial ==
  /\ pc = "serial"
  /\ \/ pc' = "poll" /\ UNCHANGED <<print_vars, prints>>
     \/ MoreTyped /\ \E key \in {"key", "enter"} : Input(key, "poll")
  /\ UNCHANGED <<serial_keeps, out_data, uart_vars, session_vars, restarts>>

(* Both handlers wait for room in the UART.                                *)
WriteUart ==
  /\ pc \in {"print", "panic"} /\ todo # <<>> /\ Len(uart) < UartDepth
  /\ uart' = Append(uart, Head(todo)) /\ todo' = Tail(todo)
  /\ UNCHANGED <<serial_keeps, pc, back, text, out_data, told, session_vars, prints, restarts>>

(* Output::write_str: a push that finds no room is dropped.                *)
Lines(chars) == IF chars # <<>> /\ chars[Len(chars)] = NewLine
                THEN SubSeq(chars, 1, Len(chars) - 1) \o <<Return, NewLine>> ELSE chars
Pushed == Fitting(out_data \o Lines(text))

Printed ==
  /\ pc = "print" /\ todo = <<>> /\ pc' = back
  /\ out_data' = Pushed
  /\ printed' = IF telnet_active THEN printed \o Lines(text) ELSE <<>>
  /\ dropped' = (dropped \/ Len(out_data) + Len(Lines(text)) > OutSize)
  /\ text' = <<>>
  /\ UNCHANGED <<serial_keeps, back, todo, uart_vars, prints, restarts>>

(* The panic handler is done, or the command reboot.  What the UART has    *)
(* not sent is lost, and the menu forgets its line.                        *)
Reset ==
  /\ restarts' = restarts + 1
  /\ pc = "reset" \/ (pc = "panic" /\ todo = <<>>)
  /\ pc' = "print" /\ back' = "poll" /\ text' = <<>> /\ todo' = Other(1)
  /\ out_data' = <<>> /\ telnet_active' = FALSE
  /\ tcp' = "Closed" /\ rx' = <<>> /\ tx' = <<>> /\ received' = <<>>
  /\ uart' = <<>> /\ told' = 0 /\ printed' = <<>> /\ dropped' = FALSE
  /\ UNCHANGED <<prints, sessions>>

Main == PollEnd \/ Listen \/ Session \/ Receive \/ Send \/ Serial \/ WriteUart \/ Printed \/ Reset
Client == Ack \/ Take
ConsoleNext == UartSend \/ Syn \/ Client \/ Rst \/ Type \/ Fin \/ Main
ConsoleSpec == ConsoleInit /\ [][ConsoleNext]_console_vars

(***************************************************************************)
(* Properties.                                                             *)
(***************************************************************************)

(* What the client of a session has, what is on its way and what waits in  *)
(* out_data is one text: the greeting and what either terminal printed     *)
(* since, in order and nothing of it twice; nothing of a session before,   *)
(* although the buffer still held it.  All of it, unless something did not *)
(* find room.                                                              *)
IsPartOf(part, whole) ==
  \A k \in 1..Len(part) : part[k] > 0 =>
     /\ \E m \in 1..Len(whole) : whole[m] = part[k]
     /\ \A m \in 1..(k - 1) : part[m] < part[k]

AllText == received \o tx \o out_data

TextRight ==
  /\ Len(AllText) >= Len(Greeting) /\ SubSeq(AllText, 1, Len(Greeting)) = Greeting
  /\ IsPartOf(AllText, printed)
  /\ ~dropped => AllText = Greeting \o printed

SessionText == telnet_active /\ IsActive(tcp) => TextRight

(* "Write some more text, otherwise not all data gets through" (panic.rs): *)
(* the message of a panic has left the UART when the chip is reset, because *)
(* the text behind it is as long as what the UART holds.                   *)
PanicTold == pc = "panic" /\ todo = <<>> => told = Info

(* What is printed is sent while the client listens, and a client that is  *)
(* done is answered: the socket gets back to where the next session can    *)
(* begin, as long as the client takes what it is sent.  The loop turns and *)
(* the UART sends; poll is a call that ends.                               *)
ConsoleLiveSpec ==
  ConsoleSpec /\ WF_console_vars(Main) /\ WF_console_vars(UartSend) /\ SF_console_vars(Client)
SessionServed ==
  /\ (tcp = "Established" /\ out_data # <<>>) ~> (tcp # "Established" \/ out_data = <<>>)
  /\ (tcp = "CloseWait") ~> (tcp \in {"Closed", "Listen"})

(***************************************************************************)
(* The invariant they follow from.                                         *)
(***************************************************************************)

Byte == {"info", "other"}
ConsoleTypeOK ==
  /\ pc \in {"poll", "telnet", "session", "receive", "send", "serial", "print", "panic", "reset"}
  /\ back \in {"poll", "receive"}
  /\ text \in Seq(Int) /\ todo \in Seq(Byte) /\ uart \in Seq(Byte) /\ Len(uart) <= UartDepth
  /\ out_data \in Seq(Int) /\ Len(out_data) <= OutSize
  /\ telnet_active \in BOOLEAN /\ dropped \in BOOLEAN
  /\ tcp \in {"Closed", "Listen", "SynReceived", "Established", "CloseWait", "LastAck"}
  /\ rx \in Seq({"key", "enter", "nul"}) /\ tx \in Seq(Int) /\ received \in Seq(Int)
  /\ printed \in Seq(Int) /\ told \in Nat /\ prints \in Nat

(* The place of the next byte that leaves the UART in a panic's message;   *)
(* what was in the UART before the panic comes before its first byte.      *)
NextLeaving == Info + 2 * Done - Len(todo) - Len(uart)
IsInfo(place) == place \in 1..Info

(* Bytes of a message are only under way in a panic, and then in order.    *)
PanicInv ==
  /\ pc # "panic" =>
       /\ told = 0
       /\ \A j \in 1..Len(uart) : uart[j] = "other"
       /\ pc = "print" => \A j \in 1..Len(todo) : todo[j] = "other"
  /\ pc = "panic" =>
       /\ told = IF NextLeaving < 0 THEN 0 ELSE IF NextLeaving > Info THEN Info ELSE NextLeaving
       /\ \A j \in 1..Len(uart) : uart[j] = "info" <=> IsInfo(NextLeaving + j)
       /\ \A j \in 1..Len(todo) : todo[j] = "info" <=> IsInfo(NextLeaving + Len(uart) + j)

(* What is printed is newer than all that was.                             *)
PrintsInv ==
  /\ \A m \in 1..Len(printed) : printed[m] <= prints
  /\ pc # "print" => text = <<>>
  /\ text # <<>> => /\ text \in {<<prints>>, <<prints, NewLine>>} /\ prints > 0
                    /\ \A m \in 1..Len(printed) : printed[m] < prints

(* A session that main has not seen yet has been sent nothing; one that    *)
(* begins anew within a poll, behind main's back, has been sent nothing of *)
(* the text either.                                                        *)
SessionInv ==
  /\ pc \notin {"poll", "telnet"} => (telnet_active <=> IsActive(tcp))
  /\ tcp \in {"Listen", "SynReceived"} => tx = <<>>
  /\ tcp = "SynReceived" \/ (tcp = "Listen" /\ telnet_active) => received = <<>>
  /\ ~telnet_active /\ IsActive(tcp) => tx = <<>> /\ received = <<>>
  /\ telnet_active /\ tcp # "Closed" => TextRight

ConsoleInv == ConsoleTypeOK /\ PanicInv /\ PrintsInv /\ SessionInv
==================================================================================
