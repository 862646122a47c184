-------------------------- MODULE KvSessionProofs --------------------------
(***************************************************************************)
(* Machine-checked proofs about KvSession, for every set of texts the user *)
(* can type, every size of the buffer and any number of messages.          *)
(*                                                                         *)
(* That client and daemon stay in step while each message is read in one   *)
(* piece needs to be known at every point of an exchange, not only at the  *)
(* prompts (Exchange); what an "OK" on its way says of the connection, that*)
(* it stays true until the client reads it (OKIsTrue).  That what is stored*)
(* is what was typed needs, besides, that the daemon's parsing undoes the  *)
(* putting together of the messages by the client.                         *)
(***************************************************************************)
EXTENDS KvSession, SequenceTheorems, WellFoundedInduction, TLAPS

Bytes == Characters \cup {Blank, "AUTH", "KV_SNAPSHOT"} \cup StoreOperations

Statuses == {"none", "OK", "FAIL", "Snap", "succeeded", "failed", "error", "refused"}

ResponseHalf == [half : {1, 2}, status : Statuses, answers : BOOLEAN]

(* The part of TypeOK that the proofs need, and what the streams carry. *)
Typing ==
  /\ cpc \in {"login", "authwait", "menu", "wait", "gone"}
  /\ peer \in {"open", "fin", "pipe", "reset"}
  /\ dpc \in {"read", "handle", "write"} \cup Gone
  /\ response \in Statuses
  /\ authenticated \in BOOLEAN /\ whole \in BOOLEAN /\ answered \in BOOLEAN
  /\ sends \in 0 .. MaxSends
  /\ asked \in Messages \cup {<<>>}
  /\ up \in Seq(Bytes)
  /\ down \in Seq(ResponseHalf)
  /\ line \in Seq(Bytes)
  /\ Len(line) <= BufLen
  /\ dpc = "read" => line = <<>>
  /\ dpc \notin Gone => (cpc = "gone" <=> peer # "open")

(* Every "OK" that was written or is about to be is still true. *)
OKIsTrue ==
  /\ response = "OK" => authenticated
  /\ \A i \in 1 .. Len(down) : down[i].status = "OK" => authenticated

(* The four states of an exchange, as long as each message and each         *)
(* response was read in one piece.  A client may leave in all of them.      *)
Idle ==
  /\ cpc \in {"login", "menu", "gone"}
  /\ up = <<>> /\ dpc = "read"
  /\ cpc # "gone" => down = <<>> /\ answered

Asking ==
  /\ cpc \in {"authwait", "wait", "gone"} /\ peer \in {"open", "fin"}
  /\ up = asked /\ down = <<>> /\ dpc = "read"

Answering ==
  /\ cpc \in {"authwait", "wait", "gone"} /\ peer \in {"open", "fin"}
  /\ up = <<>> /\ down = <<>> /\ dpc \in {"handle", "write"} /\ line = asked

Answered ==
  /\ cpc \in {"authwait", "wait", "gone"}
  /\ up = <<>> /\ dpc = "read"
  /\ Len(down) = 2 /\ down[1].answers

Exchange == whole /\ dpc \notin Gone => Idle \/ Asking \/ Answering \/ Answered

IInv ==
  /\ Typing /\ OKIsTrue /\ Exchange
  /\ MenuOnlyWhenLoggedIn /\ NoMutualWait /\ SigpipeNeedsPieces

-----------------------------------------------------------------------------
(* Messages are not empty, and made of what the stream can carry. *)

(* Two texts one after the other are a text of their joint length. *)
LEMMA Joined ==
  ASSUME NEW S, NEW s \in Seq(S), NEW t \in Seq(S)
  PROVE  s \o t \in Seq(S) /\ Len(s \o t) = Len(s) + Len(t) /\ (s # <<>> \/ t # <<>> => s \o t # <<>>)
<1>1. s \o t \in Seq(S) /\ Len(s \o t) = Len(s) + Len(t)
  OBVIOUS
<1>2. Len(s) \in Nat /\ Len(t) \in Nat
  OBVIOUS
<1>3. (s # <<>> => Len(s) # 0) /\ (t # <<>> => Len(t) # 0)
  OBVIOUS
<1>4. s \o t = <<>> => Len(s \o t) = 0
  OBVIOUS
<1> HIDE <1>1
<1> QED
  BY <1>1, <1>2, <1>3, <1>4

(* An AUTH message. *)
LEMMA AuthMessageText ==
  ASSUME NEW l \in Logins
  PROVE  AuthMessage(l) \in Seq(Bytes) /\ AuthMessage(l) # <<>>
<1> DEFINE op == <<"AUTH", Blank>>
           named == op \o l[1]
           spaced == named \o <<Blank>>
<1>1. l[1] \in Seq(Bytes) /\ l[2] \in Seq(Bytes)
  BY TextsAssumption, SeqMonotonic DEF Bytes
<1>2. op \in Seq(Bytes) /\ <<Blank>> \in Seq(Bytes) /\ op # <<>>
  BY DEF Bytes
<1> HIDE DEF op
<1>3. named \in Seq(Bytes) /\ named # <<>>
  BY <1>1, <1>2, Joined
<1> HIDE DEF named
<1>4. spaced \in Seq(Bytes) /\ spaced # <<>>
  BY <1>2, <1>3, Joined
<1> HIDE DEF spaced
<1>5. spaced \o l[2] \in Seq(Bytes) /\ spaced \o l[2] # <<>>
  BY <1>1, <1>4, Joined
<1> QED
  BY <1>5 DEF AuthMessage, spaced, named, op

(* A message with a key. *)
LEMMA KeyMessageText ==
  ASSUME NEW op \in StoreOperations, NEW k \in KeyTexts
  PROVE  KeyMessage(op, k) \in Seq(Bytes) /\ KeyMessage(op, k) # <<>>
<1> DEFINE head == <<op, Blank>>
<1>1. k \in Seq(Bytes)
  BY TextsAssumption, SeqMonotonic DEF Bytes
<1>2. head \in Seq(Bytes) /\ head # <<>>
  BY DEF Bytes
<1> HIDE DEF head
<1>3. head \o k \in Seq(Bytes) /\ head \o k # <<>>
  BY <1>1, <1>2, Joined
<1> QED
  BY <1>3 DEF head, KeyMessage

(* A message with a key and a value. *)
LEMMA ValueMessageText ==
  ASSUME NEW op \in StoreOperations, NEW k \in KeyTexts, NEW v \in ValueTexts
  PROVE  ValueMessage(op, k, v) \in Seq(Bytes) /\ ValueMessage(op, k, v) # <<>>
<1> DEFINE spaced == KeyMessage(op, k) \o <<Blank>>
<1>1. v \in Seq(Bytes)
  BY TextsAssumption, SeqMonotonic DEF Bytes
<1>2. <<Blank>> \in Seq(Bytes)
  BY DEF Bytes
<1>3. spaced \in Seq(Bytes) /\ spaced # <<>>
  BY <1>2, KeyMessageText, Joined
<1> HIDE DEF spaced
<1>4. spaced \o v \in Seq(Bytes) /\ spaced \o v # <<>>
  BY <1>1, <1>3, Joined
<1> QED
  BY <1>4 DEF spaced, ValueMessage

(* What a request consists of, and which message is sent for it. *)
LEMMA RequestText ==
  ASSUME NEW r \in Requests
  PROVE  \/ /\ r.op \in {"KV_INSERT", "KV_UPDATE"} /\ r.key \in KeyTexts /\ r.value \in ValueTexts
            /\ MenuMessage(r) = ValueMessage(r.op, r.key, r.value)
         \/ /\ r.op \in {"KV_GET", "KV_DELETE"} /\ r.key \in KeyTexts /\ r.value = <<>>
            /\ MenuMessage(r) = KeyMessage(r.op, r.key)
         \/ r.op = "KV_SNAPSHOT" /\ r.value = <<>> /\ MenuMessage(r) = <<"KV_SNAPSHOT">>
<1>1. \/ r.op \in {"KV_INSERT", "KV_UPDATE"} /\ r.key \in KeyTexts /\ r.value \in ValueTexts
      \/ r.op \in {"KV_GET", "KV_DELETE"} /\ r.key \in KeyTexts /\ r.value = <<>>
      \/ r.op = "KV_SNAPSHOT" /\ r.value = <<>>
  BY DEF Requests
<1>2. CASE r.op \in {"KV_INSERT", "KV_UPDATE"}
  <2>1. MenuMessage(r) = ValueMessage(r.op, r.key, r.value)
    BY <1>2 DEF MenuMessage
  <2> QED
    BY <1>1, <1>2, <2>1
<1>3. CASE r.op \in {"KV_GET", "KV_DELETE"}
  <2>1. MenuMessage(r) = KeyMessage(r.op, r.key)
    BY <1>3 DEF MenuMessage
  <2> QED
    BY <1>1, <1>3, <2>1
<1>4. CASE r.op = "KV_SNAPSHOT"
  <2>1. MenuMessage(r) = <<"KV_SNAPSHOT">>
    BY <1>4 DEF MenuMessage
  <2> QED
    BY <1>1, <1>4, <2>1
<1> QED
  BY <1>1, <1>2, <1>3, <1>4

(* All of them. *)
LEMMA MessageText ==
  ASSUME NEW text \in Messages
  PROVE  text \in Seq(Bytes) /\ text # <<>>
<1>1. CASE \E l \in Logins : text = AuthMessage(l)
  BY <1>1, AuthMessageText
<1>2. CASE \E r \in Requests : text = MenuMessage(r)
  <2>1. PICK r \in Requests : text = MenuMessage(r)
    BY <1>2
  <2>2. CASE r.op \in {"KV_INSERT", "KV_UPDATE"} /\ r.key \in KeyTexts /\ r.value \in ValueTexts
    <3>1. text = ValueMessage(r.op, r.key, r.value) /\ r.op \in StoreOperations
      BY <2>1, <2>2, RequestText DEF StoreOperations
    <3> QED
      BY <2>2, <3>1, ValueMessageText
  <2>3. CASE r.op \in {"KV_GET", "KV_DELETE"} /\ r.key \in KeyTexts
    <3>1. text = KeyMessage(r.op, r.key) /\ r.op \in StoreOperations
      BY <2>1, <2>3, RequestText DEF StoreOperations
    <3> QED
      BY <2>3, <3>1, KeyMessageText
  <2>4. CASE r.op = "KV_SNAPSHOT"
    <3>1. text = <<"KV_SNAPSHOT">>
      BY <2>1, <2>4, RequestText
    <3> QED
      BY <3>1 DEF Bytes
  <2> QED
    BY <2>2, <2>3, <2>4, RequestText
<1> QED
  BY <1>1, <1>2 DEF Messages

-----------------------------------------------------------------------------
(* Each action of the client preserves the invariant. *)

(* A fresh connection satisfies the invariant. *)
LEMMA InitOK == Init => IInv
<1> SUFFICES ASSUME Init PROVE IInv
  OBVIOUS
<1>1. Typing
  <2>1. up \in Seq(Bytes) /\ down \in Seq(ResponseHalf) /\ line \in Seq(Bytes)
    BY DEF Init
  <2>2. Len(line) <= BufLen
    BY BufLenAssumption DEF Init
  <2>3. sends \in 0 .. MaxSends
    BY SizesAssumption DEF Init
  <2> QED
    BY <2>1, <2>2, <2>3 DEF Init, Typing, Gone, Statuses
<1>2. OKIsTrue /\ Exchange /\ MenuOnlyWhenLoggedIn /\ NoMutualWait /\ SigpipeNeedsPieces
  BY DEF Init, OKIsTrue, Exchange, Idle, MenuOnlyWhenLoggedIn, NoMutualWait, SigpipeNeedsPieces
<1> QED
  BY <1>1, <1>2 DEF IInv

(* The client sends: with both streams empty, the exchange begins. *)
LEMMA SendStep ==
  ASSUME IInv, NEW text \in Messages, NEW request, NEW next \in {"authwait", "wait"},
         cpc \in {"login", "menu"}, next = "wait" => cpc = "menu", Send(text, request, next)
  PROVE  IInv'
<1> USE DEF Send
<1>1. text \in Seq(Bytes) /\ text # <<>>
  BY MessageText
<1>2. up' \in Seq(Bytes) /\ up' # <<>>
  BY <1>1, Joined DEF IInv, Typing
<1>3. Typing'
  BY <1>2, SizesAssumption DEF IInv, Typing
<1>4. OKIsTrue' /\ MenuOnlyWhenLoggedIn' /\ SigpipeNeedsPieces'
  BY DEF IInv, OKIsTrue, MenuOnlyWhenLoggedIn, SigpipeNeedsPieces
<1>5. NoMutualWait'
  BY <1>2 DEF NoMutualWait
<1>6. Exchange'
  <2> SUFFICES ASSUME whole, dpc \notin Gone PROVE Asking'
    BY DEF Exchange, Gone
  <2>1. Idle
    BY DEF IInv, Exchange, Idle, Asking, Answering, Answered
  <2>2. up' = text
    BY <1>1, <2>1 DEF Idle
  <2> QED
    BY <2>1, <2>2 DEF Asking, Idle, IInv, Typing
<1> QED
  BY <1>3, <1>4, <1>5, <1>6 DEF IInv

(* The client reads: whole, a response ends the exchange. *)
LEMMA ReceiveStep ==
  ASSUME IInv, NEW n \in 1 .. Len(down), Receive(n)
  PROVE  IInv'
<1> DEFINE chunk == SubSeq(down, 1, n)
<1>1. down \in Seq(ResponseHalf) /\ Len(down) \in Nat
  BY DEF IInv, Typing
<1>2. /\ down' \in Seq(ResponseHalf) /\ Len(down') = Len(down) - n
      /\ \A i \in 1 .. Len(down') : down'[i] = down[n + i]
  BY <1>1 DEF Receive
<1>3. chunk \in Seq(ResponseHalf) /\ Len(chunk) = n /\ \A i \in 1 .. n : chunk[i] = down[i]
  BY <1>1
<1>4. answered' = down[1].answers
  BY <1>3 DEF Receive
<1>5. ASSUME NEW found \in FoundOK(chunk), found PROVE authenticated
  <2>1. \E i \in 1 .. Len(chunk) : chunk[i].half = 1 /\ chunk[i].status = "OK"
    BY <1>5 DEF FoundOK
  <2> QED
    BY <1>1, <1>3, <2>1 DEF IInv, OKIsTrue
<1>6. PICK found \in FoundOK(chunk) : cpc' = IF cpc = "wait" \/ found THEN "menu" ELSE "login"
  BY DEF Receive
<1>7. /\ cpc \in {"authwait", "wait"} /\ cpc' \in {"menu", "login"}
      /\ cpc' = "menu" => authenticated
  BY <1>5, <1>6 DEF Receive, IInv, MenuOnlyWhenLoggedIn
<1>8. /\ whole' = (whole /\ n = 2)
      /\ UNCHANGED <<up, peer, dpc, line, authenticated, response, store, sends, asked>>
  BY DEF Receive
<1> HIDE DEF chunk
<1>9. Typing'
  <2>1. down[1] \in ResponseHalf
    BY <1>1
  <2>2. answered' \in BOOLEAN
    BY <1>4, <2>1 DEF ResponseHalf
  <2> QED
    BY <1>2, <1>7, <1>8, <2>2 DEF IInv, Typing
<1>10. OKIsTrue'
  BY <1>1, <1>2, <1>8 DEF IInv, OKIsTrue
<1>11. MenuOnlyWhenLoggedIn' /\ NoMutualWait' /\ SigpipeNeedsPieces'
  BY <1>7, <1>8 DEF IInv, MenuOnlyWhenLoggedIn, NoMutualWait, SigpipeNeedsPieces
<1>12. Exchange'
  <2> SUFFICES ASSUME whole', dpc' \notin Gone PROVE Idle'
    BY DEF Exchange
  <2>1. whole /\ n = 2 /\ dpc \notin Gone
    BY <1>8
  <2>2. Answered
    BY <1>1, <1>7, <2>1 DEF IInv, Exchange, Idle, Asking, Answering
  <2>3. down' = <<>>
    BY <1>2, <2>1, <2>2 DEF Answered
  <2> QED
    BY <1>4, <1>7, <1>8, <2>2, <2>3 DEF Idle, Answered
<1> QED
  BY <1>9, <1>10, <1>11, <1>12 DEF IInv

(* The client finds the connection closed. *)
LEMMA ReceiveNothingStep == IInv /\ ReceiveNothing => IInv'
<1> SUFFICES ASSUME IInv, ReceiveNothing PROVE IInv'
  OBVIOUS
<1> USE DEF ReceiveNothing, history
<1>1. Typing'
  BY DEF IInv, Typing
<1>2. OKIsTrue'
  BY DEF IInv, OKIsTrue
<1> QED
  BY <1>1, <1>2 DEF IInv, Exchange, MenuOnlyWhenLoggedIn, NoMutualWait, SigpipeNeedsPieces

(* The client leaves, at any point of an exchange. *)
LEMMA ClientLeavesStep == IInv /\ ClientLeaves => IInv'
<1> SUFFICES ASSUME IInv, ClientLeaves PROVE IInv'
  OBVIOUS
<1> USE DEF ClientLeaves, history
<1>1. Typing'
  BY DEF IInv, Typing
<1>2. OKIsTrue'
  BY DEF IInv, OKIsTrue
<1>3. Exchange'
  BY DEF IInv, Typing, Exchange, Idle, Asking, Answering, Answered
<1> QED
  BY <1>1, <1>2, <1>3 DEF IInv, MenuOnlyWhenLoggedIn, NoMutualWait, SigpipeNeedsPieces

-----------------------------------------------------------------------------
(* Each action of the daemon preserves the invariant. *)

(* The daemon reads a command, or a piece of it. *)
LEMMA ReadCommandStep ==
  ASSUME IInv, NEW n \in 1 .. Len(up), n <= BufLen, ReadCommand(n)
  PROVE  IInv'
<1> DEFINE piece == SubSeq(up, 1, n)
<1>1. up \in Seq(Bytes) /\ Len(up) \in Nat /\ line = <<>> /\ dpc = "read"
  BY DEF IInv, Typing, ReadCommand
<1>2. piece \in Seq(Bytes) /\ Len(piece) = n
  BY <1>1
<1>3. line' = piece
  <2>1. SubSeq(line, n + 1, Len(line)) = <<>>
    BY <1>1, SubSeqEmpty
  <2>2. line' = piece \o <<>>
    BY <2>1 DEF ReadCommand
  <2> HIDE DEF piece
  <2> QED
    BY <1>2, <2>2, ConcatEmptySeq
<1>4. up' \in Seq(Bytes) /\ Len(up') = Len(up) - n
  BY <1>1 DEF ReadCommand
<1>5. /\ dpc' = "handle" /\ whole' = (whole /\ piece = asked)
      /\ UNCHANGED <<cpc, down, peer, authenticated, response, store, sends, asked, answered>>
  BY DEF ReadCommand, client
<1> HIDE DEF piece
<1>6. Typing'
  BY <1>1, <1>2, <1>3, <1>4, <1>5 DEF IInv, Typing, Gone
<1>7. OKIsTrue'
  BY <1>5 DEF IInv, OKIsTrue
<1>8. MenuOnlyWhenLoggedIn' /\ NoMutualWait' /\ SigpipeNeedsPieces'
  BY <1>5 DEF IInv, MenuOnlyWhenLoggedIn, NoMutualWait, SigpipeNeedsPieces
<1>9. Exchange'
  <2> SUFFICES ASSUME whole' PROVE Answering'
    BY DEF Exchange
  <2>1. whole /\ piece = asked
    BY <1>5
  <2>2. up # <<>>
    BY <1>1
  <2>3. Asking
    BY <1>1, <2>1, <2>2 DEF IInv, Exchange, Idle, Answering, Answered, Gone
  <2>4. Len(up') = 0
    BY <1>2, <1>4, <2>1, <2>3 DEF Asking
  <2>5. up' = <<>>
    BY <1>4, <2>4
  <2> QED
    BY <1>3, <1>5, <2>1, <2>3, <2>5 DEF Asking, Answering
<1> QED
  BY <1>6, <1>7, <1>8, <1>9 DEF IInv

(* The steps that end the connection: ReadEnd and DaemonExits. *)
LEMMA EndStep == IInv /\ (ReadEnd \/ DaemonExits) => IInv'
<1> SUFFICES ASSUME IInv, ReadEnd \/ DaemonExits PROVE IInv'
  OBVIOUS
<1>1. /\ dpc' \in {"closed", "exited"}
      /\ UNCHANGED <<cpc, up, down, peer, line, authenticated, response, store, history>>
  BY DEF ReadEnd, DaemonExits
<1>2. Typing'
  BY <1>1 DEF IInv, Typing, Gone, history
<1>3. OKIsTrue'
  BY <1>1 DEF IInv, OKIsTrue
<1> QED
  BY <1>1, <1>2, <1>3
     DEF IInv, Exchange, MenuOnlyWhenLoggedIn, NoMutualWait, SigpipeNeedsPieces, Gone, history

(* What every path through parse_and_handle_command has in common: one      *)
(* response, which says "OK" only to an authenticated connection, and no    *)
(* way to lose the authentication.                                          *)
Handled ==
  /\ dpc = "handle" /\ dpc' = "write"
  /\ response' \in Statuses
  /\ authenticated' \in BOOLEAN
  /\ authenticated => authenticated'
  /\ response' = "OK" => authenticated'
  /\ UNCHANGED <<client, up, down, peer, line, whole>>

(* Each end of parse_and_handle_command is such a step. *)
LEMMA HandledOnEveryPath ==
  ASSUME IInv,
         HandleAuth \/ HandleSnapshot \/ HandleRefused
           \/ \E op \in StoreOperations : HandleOperation(op)
  PROVE  Handled
<1> USE DEF Handled, Respond, Statuses, Handling
<1>1. authenticated \in BOOLEAN
  BY DEF IInv, Typing
<1>2. CASE HandleAuth
  BY <1>1, <1>2 DEF HandleAuth, authenticate
<1>3. CASE HandleSnapshot
  BY <1>1, <1>3 DEF HandleSnapshot
<1>4. CASE HandleRefused
  BY <1>1, <1>4 DEF HandleRefused
<1>5. ASSUME NEW op \in StoreOperations, HandleOperation(op)
      PROVE  Handled
  BY <1>1, <1>5 DEF HandleOperation
<1> QED
  BY <1>2, <1>3, <1>4, <1>5

(* So it keeps the invariant. *)
LEMMA HandledStep == IInv /\ Handled => IInv'
<1> SUFFICES ASSUME IInv, Handled PROVE IInv'
  OBVIOUS
<1> USE DEF Handled, client
<1>1. Typing'
  BY DEF IInv, Typing, Gone
<1>2. OKIsTrue'
  BY DEF IInv, OKIsTrue
<1>3. Exchange'
  BY DEF IInv, Exchange, Idle, Asking, Answering, Answered, Gone
<1> QED
  BY <1>1, <1>2, <1>3 DEF IInv, MenuOnlyWhenLoggedIn, NoMutualWait, SigpipeNeedsPieces

(* The daemon writes the response, to a client that may have gone. *)
LEMMA WriteResponseStep == IInv /\ WriteResponse => IInv'
<1> SUFFICES ASSUME IInv, WriteResponse PROVE IInv'
  OBVIOUS
<1>1. /\ dpc = "write" /\ response' = "none" /\ line' = <<>>
      /\ UNCHANGED <<cpc, up, authenticated, store, sends, asked, answered, whole>>
  BY DEF WriteResponse, ClearBuffer, history
<1>2. Halves \in Seq(ResponseHalf) /\ Len(Halves) = 2
  BY DEF Halves, ResponseHalf, IInv, Typing
<1>3. Len(line') <= BufLen /\ line' \in Seq(Bytes)
  BY <1>1, BufLenAssumption
<1>4. CASE peer = "open"
  <2>1. down' = down \o Halves /\ peer' = "open" /\ dpc' = "read"
    BY <1>4 DEF WriteResponse
  <2>2. down \in Seq(ResponseHalf) /\ Len(down) \in Nat
    BY DEF IInv, Typing
  <2>3. down' \in Seq(ResponseHalf) /\ Len(down') = Len(down) + 2
    <3>1. down \o Halves \in Seq(ResponseHalf) /\ Len(down \o Halves) = Len(down) + Len(Halves)
      BY <1>2, <2>2, Joined
    <3> QED
      BY <1>2, <2>1, <3>1
  <2>4. Typing'
    BY <1>1, <1>3, <1>4, <2>1, <2>3 DEF IInv, Typing, Statuses, Gone
  <2>5. OKIsTrue'
    <3>1. \A i \in 1 .. Len(down') :
            down'[i] = IF i <= Len(down) THEN down[i] ELSE Halves[i - Len(down)]
      BY <1>2, <2>1, <2>2
    <3>2. \A i \in 1 .. 2 : Halves[i].status = response
      BY DEF Halves
    <3> QED
      BY <1>1, <2>2, <2>3, <3>1, <3>2 DEF IInv, OKIsTrue
  <2>6. Exchange'
    <3> SUFFICES ASSUME whole PROVE Answered'
      BY <1>1 DEF Exchange
    <3>1. Answering
      BY <1>1 DEF IInv, Exchange, Idle, Asking, Answered, Gone
    <3>2. down' = Halves
      BY <1>2, <2>1, <3>1 DEF Answering
    <3>3. Halves[1].answers
      <4>1. line = asked
        BY <3>1 DEF Answering
      <4>2. Halves[1].answers = (line = asked)
        BY DEF Halves
      <4> QED
        BY <4>1, <4>2
    <3> QED
      BY <1>1, <1>2, <2>1, <3>1, <3>2, <3>3 DEF Answered, Answering
  <2>7. down' # <<>>
    BY <2>2, <2>3
  <2> QED
    BY <1>1, <2>1, <2>4, <2>5, <2>6, <2>7
       DEF IInv, MenuOnlyWhenLoggedIn, NoMutualWait, SigpipeNeedsPieces
<1>5. CASE peer # "open"
  <2>1. /\ down' = down
        /\ peer' \in IF peer = "fin" THEN {"fin", "pipe"} ELSE {peer}
        /\ dpc' = IF peer = "pipe" THEN "killed" ELSE IF peer = "reset" THEN "closed" ELSE "read"
    BY <1>5 DEF WriteResponse
  <2>2. cpc = "gone"
    BY <1>1, <1>5 DEF IInv, Typing, Gone
  <2>3. whole => Answering
    BY <1>1 DEF IInv, Exchange, Idle, Asking, Answered, Gone
  <2>4. Typing'
    BY <1>1, <1>3, <1>5, <2>1, <2>2 DEF IInv, Typing, Statuses, Gone
  <2>5. OKIsTrue'
    BY <1>1, <2>1 DEF IInv, OKIsTrue
  <2>6. Exchange' /\ SigpipeNeedsPieces'
    BY <1>1, <1>5, <2>1, <2>2, <2>3 DEF Exchange, SigpipeNeedsPieces, Answering, Idle, Gone
  <2> QED
    BY <1>1, <2>2, <2>4, <2>5, <2>6 DEF IInv, MenuOnlyWhenLoggedIn, NoMutualWait
<1> QED
  BY <1>4, <1>5

-----------------------------------------------------------------------------

(* Every step keeps the invariant. *)
LEMMA NextOK == IInv /\ [Next]_vars => IInv'
<1> SUFFICES ASSUME IInv, [Next]_vars PROVE IInv'
  OBVIOUS
<1>1. CASE Client
  <2>1. ASSUME NEW l \in Logins, auth_user(l) PROVE IInv'
    BY <2>1, SendStep DEF auth_user, Messages
  <2>2. ASSUME NEW r \in Requests, cli_menu(r) PROVE IInv'
    BY <2>2, SendStep DEF cli_menu, Messages
  <2> QED
    BY <1>1, <2>1, <2>2, ReceiveStep, ReceiveNothingStep, ClientLeavesStep DEF Client
<1>2. CASE Daemon
  <2>1. ASSUME NEW n \in 1 .. (IF Len(up) < BufLen THEN Len(up) ELSE BufLen), ReadCommand(n)
        PROVE  IInv'
    <3>1. Len(up) \in Nat
      BY DEF IInv, Typing
    <3>2. n \in 1 .. Len(up) /\ n <= BufLen
      BY <3>1, BufLenAssumption
    <3> QED
      BY <2>1, <3>2, ReadCommandStep
  <2> QED
    BY <1>2, <2>1, EndStep, WriteResponseStep, HandledOnEveryPath, HandledStep DEF Daemon
<1>3. CASE UNCHANGED vars
  <2>1. Typing' /\ OKIsTrue'
    BY <1>3 DEF vars, IInv, Typing, OKIsTrue
  <2> QED
    BY <1>3, <2>1 DEF vars, IInv, Exchange, Idle, Asking, Answering, Answered,
                      MenuOnlyWhenLoggedIn, NoMutualWait, SigpipeNeedsPieces
<1> QED
  BY <1>1, <1>2, <1>3 DEF Next

(* Every reachable state satisfies the inductive invariant. *)
THEOREM Invariance == Spec => []IInv
  BY InitOK, NextOK, PTL DEF Spec

(* The menu is shown only on a connection that PAM has let in, however the  *)
(* bytes of logins and answers were cut, merged or delayed                  *)
(* (client.cpp:82-85, daemon.cpp:225-231).                                  *)
THEOREM LoggedInAtMenu == Spec => []MenuOnlyWhenLoggedIn
<1>1. IInv => MenuOnlyWhenLoggedIn
  BY DEF IInv
<1> QED
  BY <1>1, Invariance, PTL

(* The client never waits for a daemon that waits for the client: each read *)
(* of handle_client is followed by a response (daemon.cpp:177-198).         *)
THEOREM NobodyStarves == Spec => []NoMutualWait
<1>1. IInv => NoMutualWait
  BY DEF IInv
<1> QED
  BY <1>1, Invariance, PTL

(* While messages are read in one piece, the response shown answers the     *)
(* message just sent, and both streams are empty at the prompt              *)
(* (daemon.cpp:174-198, client.cpp:180-190).                                *)
THEOREM StaysInStep == Spec => []InStep
<1>1. IInv => InStep
  BY DEF IInv, Exchange, Idle, Asking, Answering, Answered, InStep
<1> QED
  BY <1>1, Invariance, PTL

(* A client that leaves cannot end the daemon by SIGPIPE while messages are *)
(* read in one piece (daemon.cpp:194).                                      *)
THEOREM SigpipeOnlyAfterPieces == Spec => []SigpipeNeedsPieces
<1>1. IInv => SigpipeNeedsPieces
  BY DEF IInv
<1> QED
  BY <1>1, Invariance, PTL

-----------------------------------------------------------------------------
(* Parsing: what istringstream makes of a message. *)

(* The least element of a set of numbers is what CHOOSE returns. *)
LEMMA ChooseLeast ==
  ASSUME NEW S \in SUBSET Int, NEW m \in S, \A j \in S : m <= j
  PROVE  (CHOOSE i \in S : \A j \in S : i <= j) = m
<1> DEFINE c == CHOOSE i \in S : \A j \in S : i <= j
<1>1. c \in S /\ \A j \in S : c <= j
  BY Zenon
<1> HIDE DEF c
<1>2. c = m
  BY <1>1
<1> QED
  BY <1>2 DEF c

(* And there is one in every set of naturals that is not empty. *)
LEMMA Least ==
  ASSUME NEW S \in SUBSET Nat, S # {}
  PROVE  LET c == CHOOSE i \in S : \A j \in S : i <= j
         IN  c \in S /\ \A j \in S : c <= j
<1>1. \E x \in S : \A y \in S : ~ (<<y, x>> \in OpToRel(<, Nat))
  BY WFMin, NatLessThanWellFounded
<1>2. PICK x \in S : \A y \in S : ~ (<<y, x>> \in OpToRel(<, Nat))
  BY <1>1
<1>3. ASSUME NEW y \in S PROVE x <= y
  <2>1. y < x => <<y, x>> \in OpToRel(<, Nat)
    BY DEF OpToRel
  <2>2. ~ (y < x)
    BY <1>2, <2>1, Zenon
  <2> QED
    BY <2>2
<1>4. \E i \in S : \A j \in S : i <= j
  BY <1>3
<1> QED
  BY <1>4, Zenon

(* Whatever the text, a word and the rest of the line are texts. *)
LEMMA ExtractText ==
  ASSUME NEW text \in Seq(Bytes)
  PROVE  Extract(text).word \in Seq(Bytes) /\ Extract(text).rest \in Seq(Bytes)
<1> DEFINE inked == {i \in DOMAIN text : text[i] # Blank}
           first == CHOOSE i \in inked : \A j \in inked : i <= j
           ends == {i \in first .. Len(text) + 1 : i = Len(text) + 1 \/ text[i] = Blank}
           end == CHOOSE i \in ends : \A j \in ends : i <= j
<1>1. Len(text) \in Nat /\ DOMAIN text = 1 .. Len(text)
  OBVIOUS
<1>2. Extract(text) = IF inked = {} THEN [ok |-> FALSE, word |-> <<>>, rest |-> <<>>]
                      ELSE [ok |-> TRUE, word |-> SubSeq(text, first, end - 1),
                            rest |-> SubSeq(text, end, Len(text))]
  BY Zenon DEF Extract
<1>3. CASE inked = {}
  <2>1. Extract(text) = [ok |-> FALSE, word |-> <<>>, rest |-> <<>>]
    BY <1>2, <1>3, Zenon
  <2> QED
    BY <2>1
<1>4. CASE inked # {}
  <2>1. inked \in SUBSET Nat
    BY <1>1
  <2>2. first \in inked
    BY <1>4, <2>1, Least, Zenon
  <2>3. first \in 1 .. Len(text)
    BY <1>1, <2>2
  <2> HIDE DEF first
  <2>4. ends \in SUBSET Nat /\ Len(text) + 1 \in ends
    BY <1>1, <2>3
  <2>5. end \in ends
    <3>1. ends # {}
      BY <2>4
    <3> QED
      BY <2>4, <3>1, Least, Zenon
  <2>6. end \in first .. Len(text) + 1
    BY <2>5
  <2> HIDE DEF end
  <2>7. Extract(text) = [ok |-> TRUE, word |-> SubSeq(text, first, end - 1),
                         rest |-> SubSeq(text, end, Len(text))]
    BY <1>2, <1>4, Zenon
  <2>8. SubSeq(text, first, end - 1) \in Seq(Bytes) /\ SubSeq(text, end, Len(text)) \in Seq(Bytes)
    <3>1. \A i \in first .. end - 1 : text[i] \in Bytes
      BY <1>1, <2>3, <2>6
    <3>2. \A i \in end .. Len(text) : text[i] \in Bytes
      BY <1>1, <2>3, <2>6
    <3> QED
      BY <1>1, <2>3, <2>6, <3>1, <3>2, SubSeqProperties
  <2> QED
    BY <2>7, <2>8
<1> QED
  BY <1>3, <1>4

(* A word between blanks, from a to b - 1, is what >> extracts. *)
LEMMA ExtractWord ==
  ASSUME NEW text \in Seq(Bytes), NEW a \in 1 .. Len(text), NEW b \in a + 1 .. Len(text) + 1,
         \A i \in 1 .. a - 1 : text[i] = Blank,
         \A i \in a .. b - 1 : text[i] # Blank,
         b = Len(text) + 1 \/ text[b] = Blank
  PROVE  Extract(text) = [ok |-> TRUE, word |-> SubSeq(text, a, b - 1),
                          rest |-> SubSeq(text, b, Len(text))]
<1> DEFINE inked == {i \in DOMAIN text : text[i] # Blank}
           first == CHOOSE i \in inked : \A j \in inked : i <= j
           ends == {i \in first .. Len(text) + 1 : i = Len(text) + 1 \/ text[i] = Blank}
           end == CHOOSE i \in ends : \A j \in ends : i <= j
<1>1. Len(text) \in Nat /\ DOMAIN text = 1 .. Len(text)
  OBVIOUS
<1>2. first = a
  <2>1. inked \in SUBSET Int /\ a \in inked /\ \A j \in inked : a <= j
    BY <1>1
  <2> HIDE DEF inked
  <2> QED
    BY <2>1, ChooseLeast
<1>3. inked # {}
  BY <1>1
<1> HIDE DEF first
<1>4. end = b
  <2>1. ends \in SUBSET Int /\ b \in ends /\ \A j \in ends : b <= j
    BY <1>1, <1>2
  <2> HIDE DEF ends
  <2> QED
    BY <2>1, ChooseLeast
<1> HIDE DEF end, inked
<1>5. Extract(text) = IF inked = {} THEN [ok |-> FALSE, word |-> <<>>, rest |-> <<>>]
                      ELSE [ok |-> TRUE, word |-> SubSeq(text, first, end - 1),
                            rest |-> SubSeq(text, end, Len(text))]
  BY Zenon DEF Extract, inked, first, ends, end
<1> QED
  BY <1>2, <1>3, <1>4, <1>5

(* The name of the operation is the first byte of a message. *)
LEMMA OperationOf ==
  ASSUME NEW text \in Seq(Bytes), text # <<>>, text[1] # Blank,
         Len(text) = 1 \/ text[2] = Blank
  PROVE  /\ Operation(text).word = <<text[1]>>
         /\ Operation(text).rest = SubSeq(text, 2, Len(text))
<1>1. Len(text) \in Nat /\ Len(text) >= 1
  OBVIOUS
<1> DEFINE a == 1 b == 2
<1>2. /\ a \in 1 .. Len(text) /\ b \in a + 1 .. Len(text) + 1
      /\ \A i \in 1 .. a - 1 : text[i] = Blank
      /\ \A i \in a .. b - 1 : text[i] # Blank
      /\ b = Len(text) + 1 \/ text[b] = Blank
  BY <1>1
<1>3. SubSeq(text, a, b - 1) = <<text[1]>>
  <2>1. /\ SubSeq(text, a, b - 1) \in Seq(Bytes)
        /\ Len(SubSeq(text, a, b - 1)) = 1 /\ SubSeq(text, a, b - 1)[1] = text[1]
    BY <1>1
  <2> DEFINE w == SubSeq(text, a, b - 1)
  <2>2. w \in Seq(Bytes) /\ Len(w) = 1 /\ w[1] = text[1]
    BY <2>1
  <2> HIDE DEF w
  <2>3. w = <<w[1]>>
    BY <2>2
  <2> QED
    BY <2>2, <2>3 DEF w
<1>4. b = 2
  OBVIOUS
<1> HIDE DEF a, b
<1>5. Extract(text) = [ok |-> TRUE, word |-> SubSeq(text, a, b - 1),
                       rest |-> SubSeq(text, b, Len(text))]
  BY <1>2, ExtractWord, Zenon
<1> QED
  BY <1>3, <1>4, <1>5 DEF Operation

(* Where the parts of a message are. *)
IsJoin(j, s, t) ==
  /\ j \in Seq(Bytes) /\ Len(j) = Len(s) + Len(t)
  /\ \A i \in 1 .. Len(s) : j[i] = s[i]
  /\ \A i \in 1 .. Len(t) : j[Len(s) + i] = t[i]

(* Concatenation joins. *)
LEMMA JoinedAt ==
  ASSUME NEW s \in Seq(Bytes), NEW t \in Seq(Bytes)
  PROVE  IsJoin(s \o t, s, t)
<1>1. Len(s) \in Nat /\ Len(t) \in Nat
  OBVIOUS
<1>2. /\ s \o t \in Seq(Bytes) /\ Len(s \o t) = Len(s) + Len(t)
      /\ \A i \in 1 .. Len(s) + Len(t) :
           (s \o t)[i] = IF i <= Len(s) THEN s[i] ELSE t[i - Len(s)]
  BY ConcatProperties, Zenon
<1> DEFINE j == s \o t
<1>3. /\ j \in Seq(Bytes) /\ Len(j) = Len(s) + Len(t)
      /\ \A i \in 1 .. Len(s) + Len(t) : j[i] = IF i <= Len(s) THEN s[i] ELSE t[i - Len(s)]
  BY <1>2
<1> HIDE DEF j
<1>4. ASSUME NEW i \in 1 .. Len(s) PROVE j[i] = s[i]
  <2>1. i \in 1 .. Len(s) + Len(t) /\ i <= Len(s)
    BY <1>1
  <2> QED
    BY <1>3, <2>1
<1>5. ASSUME NEW i \in 1 .. Len(t) PROVE j[Len(s) + i] = t[i]
  <2>1. /\ Len(s) + i \in 1 .. Len(s) + Len(t) /\ ~ (Len(s) + i <= Len(s))
        /\ (Len(s) + i) - Len(s) = i
    BY <1>1
  <2> QED
    BY <1>3, <2>1
<1>6. IsJoin(j, s, t)
  BY <1>3, <1>4, <1>5 DEF IsJoin
<1> QED
  BY <1>6 DEF j

(* Where the parts of a message with a key are. *)
LEMMA KeyLayout ==
  ASSUME NEW op \in StoreOperations, NEW k \in KeyTexts
  PROVE  /\ Len(KeyMessage(op, k)) = 2 + Len(k)
         /\ KeyMessage(op, k)[1] = op /\ KeyMessage(op, k)[2] = Blank
         /\ \A i \in 1 .. Len(k) : KeyMessage(op, k)[2 + i] = k[i]
<1> DEFINE head == <<op, Blank>>
<1>1. k \in Seq(Bytes)
  BY TextsAssumption, SeqMonotonic DEF Bytes
<1>2. head \in Seq(Bytes)
  BY DEF Bytes
<1>3. Len(head) = 2 /\ head[1] = op /\ head[2] = Blank
  OBVIOUS
<1> HIDE DEF head
<1> DEFINE m == head \o k
<1>4. m = KeyMessage(op, k)
  BY DEF KeyMessage, head
<1>5. IsJoin(m, head, k)
  BY <1>1, <1>2, JoinedAt
<1> HIDE DEF m
<1>6. /\ Len(m) = Len(head) + Len(k)
      /\ \A i \in 1 .. Len(head) : m[i] = head[i]
      /\ \A i \in 1 .. Len(k) : m[Len(head) + i] = k[i]
  BY <1>5 DEF IsJoin
<1>7. /\ Len(m) = 2 + Len(k) /\ m[1] = op /\ m[2] = Blank
      /\ \A i \in 1 .. Len(k) : m[2 + i] = k[i]
  BY <1>3, <1>6
<1> QED
  BY <1>4, <1>7

(* Where the parts of a message with a value are. *)
LEMMA ValueLayout ==
  ASSUME NEW op \in StoreOperations, NEW k \in KeyTexts, NEW v \in ValueTexts,
         NEW m, m = ValueMessage(op, k, v)
  PROVE  /\ Len(m) = 3 + Len(k) + Len(v)
         /\ m[1] = op /\ m[2] = Blank /\ m[3 + Len(k)] = Blank
         /\ \A i \in 1 .. Len(k) : m[2 + i] = k[i]
         /\ \A i \in 1 .. Len(v) : m[3 + Len(k) + i] = v[i]
<1> DEFINE head == KeyMessage(op, k)
           blank == <<Blank>>
<1>1. v \in Seq(Bytes) /\ Len(v) \in Nat /\ Len(k) \in Nat
  BY TextsAssumption, SeqMonotonic DEF Bytes
<1>2. blank \in Seq(Bytes)
  BY DEF Bytes
<1>3. Len(blank) = 1 /\ blank[1] = Blank
  OBVIOUS
<1>4. head \in Seq(Bytes)
  BY KeyMessageText
<1>5. /\ Len(head) = 2 + Len(k) /\ head[1] = op /\ head[2] = Blank
      /\ \A i \in 1 .. Len(k) : head[2 + i] = k[i]
  BY KeyLayout, Zenon
<1> DEFINE spaced == head \o blank
<1>6. m = spaced \o v
  BY DEF ValueMessage
<1> HIDE DEF head, blank
<1>7. IsJoin(spaced, head, blank)
  BY <1>2, <1>4, JoinedAt
<1> HIDE DEF spaced
<1>8. spaced \in Seq(Bytes)
  BY <1>7 DEF IsJoin
<1>9. IsJoin(m, spaced, v)
  BY <1>1, <1>6, <1>8, JoinedAt
<1>10. /\ Len(spaced) = 3 + Len(k) /\ Len(k) \in Nat
       /\ spaced[1] = op /\ spaced[2] = Blank
       /\ \A i \in 1 .. Len(k) : spaced[2 + i] = k[i]
  <2>1. /\ Len(spaced) = Len(head) + Len(blank)
        /\ \A i \in 1 .. Len(head) : spaced[i] = head[i]
    BY <1>7 DEF IsJoin
  <2> QED
    BY <1>1, <1>3, <1>5, <2>1
<1>11. spaced[3 + Len(k)] = Blank
  <2>1. \A i \in 1 .. Len(blank) : spaced[Len(head) + i] = blank[i]
    BY <1>7 DEF IsJoin
  <2>2. spaced[Len(head) + 1] = blank[1] /\ Len(head) + 1 = 3 + Len(k)
    BY <1>1, <1>3, <1>5, <2>1
  <2> QED
    BY <1>3, <2>2
<1>12. /\ m[1] = spaced[1] /\ m[2] = spaced[2] /\ m[3 + Len(k)] = spaced[3 + Len(k)]
       /\ \A i \in 1 .. Len(k) : m[2 + i] = spaced[2 + i]
  <2>1. \A i \in 1 .. 3 + Len(k) : m[i] = spaced[i]
    BY <1>9, <1>10 DEF IsJoin
  <2> QED
    BY <1>1, <2>1
<1>13. Len(m) = 3 + Len(k) + Len(v) /\ \A i \in 1 .. Len(v) : m[3 + Len(k) + i] = v[i]
  BY <1>9, <1>10 DEF IsJoin
<1> QED
  BY <1>10, <1>11, <1>12, <1>13

(* How an AUTH message begins. *)
LEMMA AuthLayout ==
  ASSUME NEW l \in Logins
  PROVE  AuthMessage(l)[1] = "AUTH" /\ AuthMessage(l)[2] = Blank
<1> DEFINE op == <<"AUTH", Blank>>
           blank == <<Blank>>
<1>1. l[1] \in Seq(Bytes) /\ l[2] \in Seq(Bytes) /\ Len(l[1]) \in Nat
  BY TextsAssumption, SeqMonotonic DEF Bytes
<1>2. op \in Seq(Bytes) /\ blank \in Seq(Bytes)
  BY DEF Bytes
<1>3. Len(op) = 2 /\ Len(blank) = 1 /\ op[1] = "AUTH" /\ op[2] = Blank
  OBVIOUS
<1> DEFINE named == op \o l[1]
           spaced == named \o blank
           m == spaced \o l[2]
<1>4. AuthMessage(l) = m
  BY DEF AuthMessage
<1> HIDE DEF op, blank
<1>5. IsJoin(named, op, l[1])
  BY <1>1, <1>2, JoinedAt
<1> HIDE DEF named
<1>6. /\ named \in Seq(Bytes) /\ Len(named) \in Nat /\ Len(named) >= 2
      /\ named[1] = "AUTH" /\ named[2] = Blank
  BY <1>1, <1>3, <1>5 DEF IsJoin
<1>7. IsJoin(spaced, named, blank)
  BY <1>2, <1>6, JoinedAt
<1> HIDE DEF spaced
<1>8. /\ spaced \in Seq(Bytes) /\ Len(spaced) \in Nat /\ Len(spaced) >= 2
      /\ spaced[1] = "AUTH" /\ spaced[2] = Blank
  BY <1>3, <1>6, <1>7 DEF IsJoin
<1>9. IsJoin(m, spaced, l[2])
  BY <1>1, <1>8, JoinedAt
<1> HIDE DEF m
<1>10. m[1] = "AUTH" /\ m[2] = Blank
  BY <1>8, <1>9 DEF IsJoin
<1> QED
  BY <1>4, <1>10

(* What the user types as a key is one word.  (A key with a blank in it     *)
(* loses what is after the blank to the value, an empty one takes the       *)
(* value's first word.)                                                     *)
KeysAreWords == \A k \in KeyTexts : k # <<>> /\ \A i \in 1 .. Len(k) : k[i] # Blank

(* The name of an operation is no blank. *)
LEMMA NamesAreNotBlank == \A op \in StoreOperations \cup {"AUTH", "KV_SNAPSHOT"} : op # Blank
  BY DEF StoreOperations, Blank

(* The daemon takes a message with a value apart as the client made it. *)
LEMMA ParseValueMessage ==
  ASSUME KeysAreWords,
         NEW op \in StoreOperations, NEW k \in KeyTexts, NEW v \in ValueTexts,
         NEW m, m = ValueMessage(op, k, v)
  PROVE  Operation(m).word = <<op>> /\ Arg1(m).word = k /\ ValueOf(m) = v
<1> DEFINE r == SubSeq(m, 2, Len(m))
           b == Len(k) + 2
           q == SubSeq(r, b, Len(r))
<1>1. /\ k \in Seq(Bytes) /\ Len(k) \in Nat /\ Len(k) >= 1
      /\ v \in Seq(Bytes) /\ Len(v) \in Nat
  BY TextsAssumption, SeqMonotonic DEF Bytes, KeysAreWords
<1>2. m \in Seq(Bytes) /\ m # <<>>
  BY ValueMessageText
<1>3. /\ Len(m) = 3 + Len(k) + Len(v)
      /\ m[1] = op /\ m[2] = Blank /\ m[3 + Len(k)] = Blank
      /\ \A i \in 1 .. Len(k) : m[2 + i] = k[i]
      /\ \A i \in 1 .. Len(v) : m[3 + Len(k) + i] = v[i]
  BY ValueLayout
<1>4. Operation(m).word = <<op>> /\ Operation(m).rest = r
  BY <1>2, <1>3, NamesAreNotBlank, OperationOf
<1>5. /\ r \in Seq(Bytes) /\ Len(r) = 2 + Len(k) + Len(v)
      /\ \A i \in 1 .. Len(r) : r[i] = m[i + 1]
  BY <1>1, <1>2, <1>3
<1> HIDE DEF r
<1>6. /\ r[1] = Blank /\ r[2 + Len(k)] = Blank
      /\ \A i \in 1 .. Len(k) : r[1 + i] = k[i]
      /\ \A i \in 1 .. Len(v) : r[2 + Len(k) + i] = v[i]
  <2>1. r[1] = Blank
    BY <1>1, <1>3, <1>5
  <2>2. r[2 + Len(k)] = Blank
    BY <1>1, <1>3, <1>5
  <2>3. ASSUME NEW i \in 1 .. Len(k) PROVE r[1 + i] = k[i]
    <3>1. 1 + i \in 1 .. Len(r) /\ (1 + i) + 1 = 2 + i
      BY <1>1, <1>5
    <3> QED
      BY <1>3, <1>5, <3>1
  <2>4. ASSUME NEW i \in 1 .. Len(v) PROVE r[2 + Len(k) + i] = v[i]
    <3>1. 2 + Len(k) + i \in 1 .. Len(r) /\ (2 + Len(k) + i) + 1 = 3 + Len(k) + i
      BY <1>1, <1>5
    <3> QED
      BY <1>3, <1>5, <3>1
  <2> QED
    BY <2>1, <2>2, <2>3, <2>4
<1>7. Extract(r) = [ok |-> TRUE, word |-> SubSeq(r, 2, b - 1), rest |-> q]
  <2> DEFINE a == 2
  <2>1. /\ a \in 1 .. Len(r) /\ b \in a + 1 .. Len(r) + 1
        /\ \A i \in 1 .. a - 1 : r[i] = Blank
        /\ b = Len(r) + 1 \/ r[b] = Blank
    BY <1>1, <1>5, <1>6
  <2>2. ASSUME NEW i \in a .. b - 1 PROVE r[i] # Blank
    <3>1. i - 1 \in 1 .. Len(k) /\ 1 + (i - 1) = i
      BY <1>1
    <3>2. r[i] = k[i - 1]
      BY <1>6, <3>1
    <3> QED
      BY <3>1, <3>2 DEF KeysAreWords
  <2>3. a = 2
    OBVIOUS
  <2> HIDE DEF a, b
  <2>4. Extract(r) = [ok |-> TRUE, word |-> SubSeq(r, a, b - 1), rest |-> SubSeq(r, b, Len(r))]
    BY <1>5, <2>1, <2>2, ExtractWord, Zenon
  <2> QED
    BY <2>3, <2>4 DEF q
<1>8. SubSeq(r, 2, b - 1) = k
  <2> DEFINE w == SubSeq(r, 2, b - 1)
  <2>1. w \in Seq(Bytes) /\ Len(w) = Len(k) /\ \A i \in 1 .. Len(k) : w[i] = r[1 + i]
    BY <1>1, <1>5
  <2> HIDE DEF w
  <2>2. w = k
    BY <1>1, <1>6, <2>1, SeqEqual
  <2> QED
    BY <2>2 DEF w
<1>9. /\ q \in Seq(Bytes) /\ Len(q) = 1 + Len(v)
      /\ \A i \in 1 .. Len(q) : q[i] = r[Len(k) + 1 + i]
  BY <1>1, <1>5
<1> HIDE DEF q
<1>10. q # <<>> /\ q[1] = Blank
  BY <1>1, <1>6, <1>9
<1>11. Tail(q) = v
  <2>1. Tail(q) \in Seq(Bytes) /\ Len(Tail(q)) = Len(v) /\ \A i \in 1 .. Len(v) : Tail(q)[i] = q[i + 1]
    BY <1>1, <1>9, <1>10
  <2>2. ASSUME NEW i \in 1 .. Len(v) PROVE q[i + 1] = v[i]
    <3>1. i + 1 \in 1 .. Len(q) /\ Len(k) + 1 + (i + 1) = 2 + Len(k) + i
      BY <1>1, <1>9
    <3> QED
      BY <1>6, <1>9, <3>1
  <2> DEFINE t == Tail(q)
  <2>3. t \in Seq(Bytes) /\ Len(t) = Len(v) /\ \A i \in 1 .. Len(v) : t[i] = v[i]
    BY <2>1, <2>2
  <2> HIDE DEF t
  <2>4. t = v
    BY <1>1, <2>3, SeqEqual
  <2> QED
    BY <2>4 DEF t
<1>12. Arg1(m) = [ok |-> TRUE, word |-> k, rest |-> q]
  BY <1>4, <1>7, <1>8 DEF Arg1
<1> QED
  BY <1>4, <1>10, <1>11, <1>12 DEF ValueOf

(* So it does with a message that has only a key. *)
LEMMA ParseKeyMessage ==
  ASSUME KeysAreWords,
         NEW op \in StoreOperations, NEW k \in KeyTexts, NEW m, m = KeyMessage(op, k)
  PROVE  Operation(m).word = <<op>> /\ Arg1(m).word = k
<1> DEFINE r == SubSeq(m, 2, Len(m))
           b == Len(k) + 2
<1>1. k \in Seq(Bytes) /\ Len(k) \in Nat /\ Len(k) >= 1
  BY TextsAssumption, SeqMonotonic DEF Bytes, KeysAreWords
<1>2. m \in Seq(Bytes) /\ m # <<>>
  BY KeyMessageText
<1>3. /\ Len(m) = 2 + Len(k) /\ m[1] = op /\ m[2] = Blank
      /\ \A i \in 1 .. Len(k) : m[2 + i] = k[i]
  BY KeyLayout
<1>4. Operation(m).word = <<op>> /\ Operation(m).rest = r
  BY <1>2, <1>3, NamesAreNotBlank, OperationOf
<1>5. /\ r \in Seq(Bytes) /\ Len(r) = 1 + Len(k)
      /\ \A i \in 1 .. Len(r) : r[i] = m[i + 1]
  BY <1>1, <1>2, <1>3
<1> HIDE DEF r
<1>6. r[1] = Blank /\ \A i \in 1 .. Len(k) : r[1 + i] = k[i]
  <2>1. r[1] = Blank
    BY <1>1, <1>3, <1>5
  <2>2. ASSUME NEW i \in 1 .. Len(k) PROVE r[1 + i] = k[i]
    <3>1. 1 + i \in 1 .. Len(r) /\ (1 + i) + 1 = 2 + i
      BY <1>1, <1>5
    <3> QED
      BY <1>3, <1>5, <3>1
  <2> QED
    BY <2>1, <2>2
<1>7. Extract(r) = [ok |-> TRUE, word |-> SubSeq(r, 2, b - 1), rest |-> SubSeq(r, b, Len(r))]
  <2> DEFINE a == 2
  <2>1. /\ a \in 1 .. Len(r) /\ b \in a + 1 .. Len(r) + 1
        /\ \A i \in 1 .. a - 1 : r[i] = Blank
        /\ b = Len(r) + 1 \/ r[b] = Blank
    BY <1>1, <1>5, <1>6
  <2>2. ASSUME NEW i \in a .. b - 1 PROVE r[i] # Blank
    <3>1. i - 1 \in 1 .. Len(k) /\ 1 + (i - 1) = i
      BY <1>1
    <3>2. r[i] = k[i - 1]
      BY <1>6, <3>1
    <3> QED
      BY <3>1, <3>2 DEF KeysAreWords
  <2>3. a = 2
    OBVIOUS
  <2> HIDE DEF a, b
  <2>4. Extract(r) = [ok |-> TRUE, word |-> SubSeq(r, a, b - 1), rest |-> SubSeq(r, b, Len(r))]
    BY <1>5, <2>1, <2>2, ExtractWord, Zenon
  <2> QED
    BY <2>3, <2>4
<1>8. SubSeq(r, 2, b - 1) = k
  <2> DEFINE w == SubSeq(r, 2, b - 1)
  <2>1. w \in Seq(Bytes) /\ Len(w) = Len(k) /\ \A i \in 1 .. Len(k) : w[i] = r[1 + i]
    BY <1>1, <1>5
  <2> HIDE DEF w
  <2>2. w = k
    BY <1>1, <1>6, <2>1, SeqEqual
  <2> QED
    BY <2>2 DEF w
<1>9. Extract(r) = [ok |-> TRUE, word |-> k, rest |-> SubSeq(r, b, Len(r))]
  BY <1>7, <1>8
<1> QED
  BY <1>4, <1>9 DEF Arg1

(* A key that parse_key accepts is in range. *)
LEMMA ParsedKey ==
  ASSUME NEW word, parse_key(word).ok
  PROVE  /\ parse_key(word) = [ok |-> TRUE, key |-> parse_key(word).key]
         /\ parse_key(word).key \in 0 .. MaxKey
<1> DEFINE signed == word # <<>> /\ word[1] \in {"-", "+"}
           digits == IF signed THEN Tail(word) ELSE word
           number == FoldLeft(LAMBDA n, c : 10 * n + DigitOf[c], 0, digits)
           bad == \/ digits = <<>>
                  \/ \E i \in DOMAIN digits : digits[i] \notin DOMAIN DigitOf
                  \/ number \notin 0 .. MaxKey
           key == IF word[1] = "-" THEN (MaxKey + 1 - number) % (MaxKey + 1) ELSE number
<1>1. parse_key(word) = IF bad THEN [ok |-> FALSE, key |-> 0] ELSE [ok |-> TRUE, key |-> key]
  BY Zenon DEF parse_key
<1>2. ~ bad => number \in 0 .. MaxKey
  BY Zenon
<1> HIDE DEF bad, number
<1>3. ~ bad => key \in 0 .. MaxKey
  BY <1>2, SizesAssumption
<1> HIDE DEF key
<1>4. ~ bad
  <2> SUFFICES ASSUME bad PROVE FALSE
    OBVIOUS
  <2>1. parse_key(word) = [ok |-> FALSE, key |-> 0]
    BY <1>1, Zenon
  <2> QED
    BY <2>1
<1>5. parse_key(word) = [ok |-> TRUE, key |-> key]
  BY <1>1, <1>4, Zenon
<1> QED
  BY <1>3, <1>4, <1>5

(* strncpy keeps a prefix, and cuts only what is too long. *)
LEMMA Truncated ==
  ASSUME NEW v \in Seq(Bytes)
  PROVE  /\ IsPrefix(Strncpy(v), v)
         /\ Len(Strncpy(v)) < Len(v) => Len(Strncpy(v)) = MaxValue
<1> DEFINE n == IF Len(v) < MaxValue THEN Len(v) ELSE MaxValue
           c == SubSeq(v, 1, n)
<1>1. n \in Nat /\ n <= Len(v) /\ (n < Len(v) => n = MaxValue)
  BY SizesAssumption
<1>2. Strncpy(v) = c
  BY DEF Strncpy
<1> HIDE DEF n
<1>3. c \in Seq(Bytes) /\ Len(c) = n
  BY <1>1
<1>4. SubSeq(c, 1, Len(c)) = SubSeq(v, 1, Len(c))
  <2>1. SubSeq(c, 1, Len(c)) = c
    BY <1>3, SubSeqFull
  <2> QED
    BY <1>3, <2>1
<1> HIDE DEF c
<1> QED
  BY <1>1, <1>2, <1>3, <1>4 DEF IsPrefix

(* The value of a command is a text. *)
LEMMA ValueText ==
  ASSUME NEW text \in Seq(Bytes)
  PROVE  ValueOf(text) \in Seq(Bytes)
<1>1. Operation(text).rest \in Seq(Bytes)
  BY ExtractText DEF Operation
<1>2. Arg1(text).rest \in Seq(Bytes)
  BY <1>1, ExtractText DEF Arg1
<1> DEFINE rest == Arg1(text).rest
<1>3. ValueOf(text) = IF rest # <<>> /\ rest[1] = Blank THEN Tail(rest) ELSE rest
  BY DEF ValueOf
<1>4. rest \in Seq(Bytes)
  BY <1>2
<1> HIDE DEF rest
<1>5. rest # <<>> => Tail(rest) \in Seq(Bytes)
  BY <1>4
<1> QED
  BY <1>3, <1>4, <1>5

-----------------------------------------------------------------------------
(* The store *)

(* The ends of an ioctl: nothing is changed, or the key is removed, or it   *)
(* gets the value of the command, which has then passed all the checks.     *)
LEMMA OperationEnds ==
  ASSUME NEW op \in StoreOperations, HandleOperation(op),
         NEW new, new = parse_key(Arg1(line).word).key
  PROVE  /\ Handling(op) /\ Accepted(op)
         /\ \/ store' = store /\ (op = "KV_GET" \/ response' \in {"failed", "error"})
            \/ /\ op = "KV_DELETE" /\ response' \in {"succeeded", "error"}
               /\ store' = [k \in DOMAIN store \ {new} |-> store[k]]
            \/ /\ op \in {"KV_INSERT", "KV_UPDATE"} /\ response' \in {"succeeded", "error"}
               /\ store' = [k \in DOMAIN store \cup {new} |->
                              IF k = new THEN Strncpy(ValueOf(line)) ELSE store[k]]
<1> DEFINE value == Strncpy(ValueOf(line))
<1>1. Handling(op) /\ Accepted(op)
  BY DEF HandleOperation
<1>2. \/ response' \in {"succeeded", "error"} /\ store' = Effect(op)
      \/ response' \in {"failed", "error"} /\ store' = store
  BY DEF HandleOperation, Respond
<1>3. Effect(op) = CASE op = "KV_GET" -> store
                     [] op = "KV_DELETE" -> [k \in DOMAIN store \ {new} |-> store[k]]
                     [] OTHER -> [k \in DOMAIN store \cup {new} |->
                                    IF k = new THEN value ELSE store[k]]
  BY Zenon DEF Effect
<1> HIDE DEF value
<1>4. CASE op = "KV_GET"
  BY <1>1, <1>2, <1>3, <1>4
<1>5. CASE op = "KV_DELETE"
  <2>1. Effect(op) = [k \in DOMAIN store \ {new} |-> store[k]]
    BY <1>3, <1>5
  <2> QED
    BY <1>1, <1>2, <1>5, <2>1
<1>6. CASE op \in {"KV_INSERT", "KV_UPDATE"}
  <2>1. Effect(op) = [k \in DOMAIN store \cup {new} |-> IF k = new THEN value ELSE store[k]]
    BY <1>3, <1>6
  <2> QED
    BY <1>1, <1>2, <1>6, <2>1 DEF value
<1> QED
  BY <1>4, <1>5, <1>6 DEF StoreOperations

(* What that means for one key. *)
LEMMA StoreAfter ==
  ASSUME NEW op \in StoreOperations, HandleOperation(op), NEW key \in DOMAIN store'
  PROVE  \/ key \in DOMAIN store /\ store'[key] = store[key]
         \/ /\ op \in {"KV_INSERT", "KV_UPDATE"} /\ Handling(op) /\ Accepted(op)
            /\ key = parse_key(Arg1(line).word).key
            /\ store'[key] = Strncpy(ValueOf(line))
<1> DEFINE new == parse_key(Arg1(line).word).key
           value == Strncpy(ValueOf(line))
<1>1. Handling(op) /\ Accepted(op)
  BY DEF HandleOperation
<1>2. \/ store' = store
      \/ store' = [k \in DOMAIN store \ {new} |-> store[k]]
      \/ /\ op \in {"KV_INSERT", "KV_UPDATE"}
         /\ store' = [k \in DOMAIN store \cup {new} |-> IF k = new THEN value ELSE store[k]]
  BY OperationEnds, Zenon
<1> HIDE DEF new, value
<1>3. \/ key \in DOMAIN store /\ store'[key] = store[key]
      \/ op \in {"KV_INSERT", "KV_UPDATE"} /\ key = new /\ store'[key] = value
  BY <1>2
<1> QED
  BY <1>1, <1>3 DEF new, value

(* Only the handlers of the operations change the store. *)
LEMMA OtherStepsKeepStore ==
  [Next]_vars => (UNCHANGED store \/ \E op \in StoreOperations : HandleOperation(op))
<1> USE DEF history
<1>1. Client => UNCHANGED store
  BY DEF Client, auth_user, cli_menu, Send, Receive, ReceiveNothing, ClientLeaves
<1>2. Daemon => UNCHANGED store \/ \E op \in StoreOperations : HandleOperation(op)
  BY DEF Daemon, ReadCommand, ReadEnd, WriteResponse, HandleAuth, HandleSnapshot,
         HandleRefused, DaemonExits
<1> QED
  BY <1>1, <1>2 DEF Next, vars

StoreOK == \A k \in DOMAIN store : k \in 0 .. MaxKey /\ Len(store[k]) \in 1 .. MaxValue

(* Every step keeps the keys in range and the values short. *)
LEMMA StoreOKStep == IInv /\ StoreOK /\ [Next]_vars => StoreOK'
<1> SUFFICES ASSUME IInv, StoreOK, [Next]_vars PROVE StoreOK'
  OBVIOUS
<1>1. CASE UNCHANGED store
  BY <1>1 DEF StoreOK
<1>2. ASSUME NEW op \in StoreOperations, HandleOperation(op), NEW key \in DOMAIN store'
      PROVE  key \in 0 .. MaxKey /\ Len(store'[key]) \in 1 .. MaxValue
  <2>1. CASE key \in DOMAIN store /\ store'[key] = store[key]
    BY <2>1 DEF StoreOK
  <2>2. CASE /\ op \in {"KV_INSERT", "KV_UPDATE"} /\ Accepted(op)
             /\ key = parse_key(Arg1(line).word).key
             /\ store'[key] = Strncpy(ValueOf(line))
    <3>1. key \in 0 .. MaxKey
      BY <2>2, ParsedKey DEF Accepted
    <3> DEFINE v == ValueOf(line)
    <3>2. v \in Seq(Bytes)
      BY ValueText DEF IInv, Typing
    <3>3. v # <<>>
      BY <2>2 DEF Accepted
    <3>4. store'[key] = Strncpy(v)
      BY <2>2
    <3> HIDE DEF v
    <3>5. Len(v) \in Nat \ {0}
      BY <3>2, <3>3
    <3>6. Len(Strncpy(v)) = IF Len(v) < MaxValue THEN Len(v) ELSE MaxValue
      BY <3>2, <3>5, SizesAssumption DEF Strncpy
    <3> QED
      BY <3>1, <3>4, <3>5, <3>6, SizesAssumption
  <2> QED
    BY <1>2, <2>1, <2>2, StoreAfter
<1> QED
  BY <1>1, <1>2, OtherStepsKeepStore DEF StoreOK

-----------------------------------------------------------------------------
(* What the user typed and was told. *)

(* The message sent last is the one for the request typed last. *)
TypedOK ==
  \/ typed = Login /\ asked \in {AuthMessage(l) : l \in Logins} \cup {<<>>}
  \/ typed \in Requests /\ asked = MenuMessage(typed)

ToldOK == told \in [0 .. MaxKey -> SUBSET (ValueTexts \cup {<<>>})]

(* A response adds nothing to what is known but what was typed. *)
LEMMA LearnText ==
  ASSUME TypedOK, ToldOK, NEW status
  PROVE  Learn(status) \in [0 .. MaxKey -> SUBSET (ValueTexts \cup {<<>>})]
<1> DEFINE text == IF typed.op = "KV_DELETE" THEN <<>> ELSE typed.value
           key == KeyMeant(typed.key)
           learnt == [k \in 0 .. MaxKey |-> IF k # key THEN told[k]
                        ELSE IF status = "succeeded" THEN {text} ELSE told[k] \cup {text}]
<1>1. typed.value \in ValueTexts \cup {<<>>}
  <2>1. CASE typed = Login
    BY <2>1 DEF Login
  <2>2. CASE typed \in Requests
    BY <2>2, RequestText
  <2> QED
    BY <2>1, <2>2 DEF TypedOK
<1>2. text \in ValueTexts \cup {<<>>}
  BY <1>1
<1>3. Learn(status) = learnt \/ Learn(status) = told
  BY Zenon DEF Learn
<1> HIDE DEF text, key
<1>4. learnt \in [0 .. MaxKey -> SUBSET (ValueTexts \cup {<<>>})]
  BY <1>2 DEF ToldOK
<1> HIDE DEF learnt
<1> QED
  BY <1>3, <1>4 DEF ToldOK

(* Only a send changes what was typed, only a receive what was told. *)
LEMMA HistoryStep == TypedOK /\ ToldOK /\ [Next]_vars => TypedOK' /\ ToldOK'
<1> SUFFICES ASSUME TypedOK, ToldOK, [Next]_vars PROVE TypedOK' /\ ToldOK'
  OBVIOUS
<1>1. CASE UNCHANGED <<asked, typed, told>>
  BY <1>1 DEF TypedOK, ToldOK
<1>2. ASSUME NEW l \in Logins, auth_user(l) PROVE TypedOK' /\ ToldOK'
  BY <1>2 DEF auth_user, Send, TypedOK, ToldOK
<1>3. ASSUME NEW r \in Requests, cli_menu(r) PROVE TypedOK' /\ ToldOK'
  BY <1>3 DEF cli_menu, Send, TypedOK, ToldOK
<1>4. ASSUME NEW n \in 1 .. Len(down), Receive(n) PROVE TypedOK' /\ ToldOK'
  <2>1. \E status : told' = Learn(status)
    BY <1>4 DEF Receive
  <2>2. ToldOK'
    BY <2>1, LearnText DEF ToldOK
  <2> QED
    BY <1>4, <2>2 DEF Receive, TypedOK
<1>5. ReceiveNothing \/ ClientLeaves \/ Daemon => UNCHANGED <<asked, typed, told>>
  BY DEF ReceiveNothing, ClientLeaves, Daemon, ReadCommand, ReadEnd, WriteResponse, HandleAuth,
         HandleSnapshot, HandleRefused, HandleOperation, DaemonExits, history, client
<1> QED
  BY <1>1, <1>2, <1>3, <1>4, <1>5 DEF Next, Client, vars

(* So they stay what they are. *)
LEMMA HistoryKept == Spec => [](TypedOK /\ ToldOK)
<1>1. Init => TypedOK /\ ToldOK
  BY DEF Init, TypedOK, ToldOK
<1> QED
  BY <1>1, HistoryStep, PTL DEF Spec

(* Every state variable keeps its type: the buffer is never overrun, and    *)
(* the store only has keys that strtoull can return and strings that fit in *)
(* a message (daemon.cpp:177, 24-33, 392-401).                              *)
THEOREM TypeCorrect == Spec => []TypeOK
<1>1. Init => StoreOK
  BY DEF Init, StoreOK
<1>2. Spec => []StoreOK
  BY <1>1, StoreOKStep, Invariance, PTL DEF Spec
<1>3. IInv /\ StoreOK /\ TypedOK /\ ToldOK => TypeOK
  <2> SUFFICES ASSUME IInv, StoreOK, TypedOK, ToldOK PROVE TypeOK
    OBVIOUS
  <2>1. \A i \in DOMAIN down : down[i].half \in {1, 2}
    <3>1. down \in Seq(ResponseHalf)
      BY DEF IInv, Typing
    <3>2. \A i \in DOMAIN down : down[i] \in ResponseHalf
      BY <3>1
    <3> QED
      BY <3>2 DEF ResponseHalf
  <2>2. typed \in Requests \cup {Login}
    BY DEF TypedOK
  <2> HIDE DEF TypedOK
  <2> QED
    BY <2>1, <2>2 DEF IInv, Typing, StoreOK, ToldOK, TypeOK, Statuses
<1> QED
  BY <1>2, <1>3, Invariance, HistoryKept, PTL

-----------------------------------------------------------------------------
(* What the user typed is what the store has. *)

(* The digits of what the user types as a key are read as the number they   *)
(* spell.                                                                   *)
KeysReadRight == \A k \in KeyTexts : parse_key(k).ok => parse_key(k).key = KeyMeant(k)

(* What the user will know when the response that is being made, or on its  *)
(* way, has been read.                                                      *)
Known ==
  IF dpc = "write" THEN Learn(response) ELSE IF down # <<>> THEN Learn(down[1].status) ELSE told

KnownOK == whole /\ dpc \notin Gone /\ cpc # "gone" => Matches(Known)

(* A whole message that asks for an operation on a key is the one for the   *)
(* request that was typed, and is taken apart into its key and its value.   *)
LEMMA MessageOfRequest ==
  ASSUME KeysAreWords, TypedOK, NEW op \in StoreOperations, Operation(asked).word = <<op>>
  PROVE  /\ typed.op = op /\ typed.key \in KeyTexts /\ Arg1(asked).word = typed.key
         /\ op \in {"KV_INSERT", "KV_UPDATE"} =>
              typed.value \in ValueTexts /\ ValueOf(asked) = typed.value
<1>1. ASSUME NEW name, <<name>> = <<op>> PROVE name = op
  BY <1>1
<1>2. asked # <<>>
  <2>1. {i \in DOMAIN <<>> : <<>>[i] # Blank} = {}
    OBVIOUS
  <2>2. Extract(<<>>).word = <<>>
    BY <2>1 DEF Extract
  <2>3. <<>> # <<op>>
    OBVIOUS
  <2> QED
    BY <2>2, <2>3 DEF Operation
<1>3. ASSUME NEW l \in Logins, asked = AuthMessage(l) PROVE FALSE
  <2>1. asked \in Seq(Bytes) /\ asked # <<>> /\ asked[1] = "AUTH" /\ asked[2] = Blank
    BY <1>3, AuthMessageText, AuthLayout
  <2>2. Operation(asked).word = <<"AUTH">>
    BY <2>1, NamesAreNotBlank, OperationOf
  <2> QED
    BY <1>1, <2>2 DEF StoreOperations
<1>4. typed \in Requests /\ asked = MenuMessage(typed)
  BY <1>2, <1>3 DEF TypedOK
<1>5. CASE typed.op = "KV_SNAPSHOT"
  <2>1. asked = <<"KV_SNAPSHOT">>
    BY <1>4, <1>5, RequestText
  <2>2. asked \in Seq(Bytes) /\ asked[1] = "KV_SNAPSHOT" /\ Len(asked) = 1
    BY <2>1 DEF Bytes
  <2>3. Operation(asked).word = <<"KV_SNAPSHOT">>
    BY <1>2, <2>2, NamesAreNotBlank, OperationOf
  <2> QED
    BY <1>1, <2>3 DEF StoreOperations
<1>6. CASE typed.op \in {"KV_GET", "KV_DELETE"}
  <2>1. typed.key \in KeyTexts /\ asked = KeyMessage(typed.op, typed.key)
    BY <1>4, <1>6, RequestText
  <2>2. typed.op \in StoreOperations
    BY <1>6 DEF StoreOperations
  <2>3. Operation(asked).word = <<typed.op>> /\ Arg1(asked).word = typed.key
    BY <2>1, <2>2, ParseKeyMessage
  <2> QED
    BY <1>1, <1>6, <2>1, <2>3
<1>7. CASE typed.op \in {"KV_INSERT", "KV_UPDATE"}
  <2>1. /\ typed.key \in KeyTexts /\ typed.value \in ValueTexts
        /\ asked = ValueMessage(typed.op, typed.key, typed.value)
    BY <1>4, <1>7, RequestText
  <2>2. typed.op \in StoreOperations
    BY <1>7 DEF StoreOperations
  <2>3. /\ Operation(asked).word = <<typed.op>> /\ Arg1(asked).word = typed.key
        /\ ValueOf(asked) = typed.value
    BY <2>1, <2>2, ParseValueMessage
  <2> QED
    BY <1>1, <2>1, <2>3
<1> QED
  BY <1>4, <1>5, <1>6, <1>7, RequestText

(* What a response says of each key. *)
LEMMA Learnt ==
  ASSUME NEW status, NEW k \in 0 .. MaxKey, ToldOK
  PROVE  /\ k # KeyMeant(typed.key) => Learn(status)[k] = told[k]
         /\ status # "succeeded" \/ typed.op = "KV_GET" => told[k] \subseteq Learn(status)[k]
         /\ status \in {"succeeded", "error"} /\ k = KeyMeant(typed.key) =>
              /\ typed.op = "KV_DELETE" => <<>> \in Learn(status)[k]
              /\ typed.op \in {"KV_INSERT", "KV_UPDATE"} => typed.value \in Learn(status)[k]
<1> DEFINE key == KeyMeant(typed.key)
           text == IF typed.op = "KV_DELETE" THEN <<>> ELSE typed.value
           learnt == [i \in 0 .. MaxKey |-> IF i # key THEN told[i]
                        ELSE IF status = "succeeded" THEN {text} ELSE told[i] \cup {text}]
           changing == /\ typed.op \in {"KV_INSERT", "KV_UPDATE", "KV_DELETE"}
                       /\ status \in {"succeeded", "error"}
<1>1. Learn(status) = IF changing THEN learnt ELSE told
  BY Zenon DEF Learn
<1>2. CASE ~ changing
  <2>1. Learn(status) = told
    BY <1>1, <1>2, Zenon
  <2> QED
    BY <1>2, <2>1
<1>3. CASE changing
  <2>1. Learn(status) = learnt
    BY <1>1, <1>3, Zenon
  <2> HIDE DEF key
  <2>2. /\ k # key => learnt[k] = told[k]
        /\ k = key => learnt[k] = IF status = "succeeded" THEN {text} ELSE told[k] \cup {text}
    OBVIOUS
  <2>3. text \in {text} \/ text \in told[k] \cup {text}
    OBVIOUS
  <2> HIDE DEF learnt
  <2> QED
    BY <1>3, <2>1, <2>2 DEF key
<1> QED
  BY <1>2, <1>3

(* An operation on a key does to the store what its response will say. *)
LEMMA OperationKnown ==
  ASSUME KeysAreWords, KeysReadRight, TypedOK, ToldOK, line = asked, line \in Seq(Bytes),
         Matches(told), NEW op \in StoreOperations, HandleOperation(op)
  PROVE  Matches(Learn(response))'
<1> DEFINE new == parse_key(Arg1(line).word).key
           learnt == Learn(response')
<1>1. /\ Handling(op) /\ Accepted(op) /\ UNCHANGED <<typed, told>>
      /\ \/ store' = store /\ (op = "KV_GET" \/ response' \in {"failed", "error"})
         \/ /\ op = "KV_DELETE" /\ response' \in {"succeeded", "error"}
            /\ store' = [k \in DOMAIN store \ {new} |-> store[k]]
         \/ /\ op \in {"KV_INSERT", "KV_UPDATE"} /\ response' \in {"succeeded", "error"}
            /\ store' = [k \in DOMAIN store \cup {new} |->
                           IF k = new THEN Strncpy(ValueOf(line)) ELSE store[k]]
  <2>1. UNCHANGED <<typed, told>>
    BY DEF HandleOperation, client
  <2> QED
    BY <2>1, OperationEnds, Zenon
<1>2. Operation(asked).word = <<op>>
  BY <1>1 DEF Handling
<1>3. /\ typed.op = op /\ typed.key \in KeyTexts /\ Arg1(line).word = typed.key
      /\ op \in {"KV_INSERT", "KV_UPDATE"} =>
           typed.value \in ValueTexts /\ ValueOf(line) = typed.value
  BY <1>2, MessageOfRequest
<1>4. new = KeyMeant(typed.key) /\ new \in 0 .. MaxKey
  <2>1. parse_key(typed.key).ok
    BY <1>1, <1>3 DEF Accepted
  <2> QED
    BY <1>3, <2>1, ParsedKey DEF KeysReadRight
<1> DEFINE value == Strncpy(ValueOf(line))
<1>5. op \in {"KV_INSERT", "KV_UPDATE"} => Fits(value, typed.value)
  <2>1. \A v \in ValueTexts : v \in Seq(Bytes)
    BY TextsAssumption, SeqMonotonic DEF Bytes
  <2> QED
    BY <1>3, <2>1, Truncated DEF Fits
<1>6. Fits(<<>>, <<>>)
  BY DEF Fits, IsPrefix
<1>7. Learn(response)' = learnt
  BY <1>1, Zenon DEF Learn
<1> HIDE DEF new, value, learnt
<1>8. ASSUME NEW k \in 0 .. MaxKey PROVE \E v \in learnt[k] : Fits(Stored(k)', v)
  <2>1. /\ k # new => learnt[k] = told[k]
        /\ response' # "succeeded" \/ op = "KV_GET" => told[k] \subseteq learnt[k]
        /\ response' \in {"succeeded", "error"} /\ k = new =>
             /\ op = "KV_DELETE" => <<>> \in learnt[k]
             /\ op \in {"KV_INSERT", "KV_UPDATE"} => typed.value \in learnt[k]
    BY <1>3, <1>4, Learnt DEF learnt
  <2>2. PICK v \in told[k] : Fits(Stored(k), v)
    BY DEF Matches
  <2>3. CASE store' = store /\ (op = "KV_GET" \/ response' \in {"failed", "error"})
    <3>1. Stored(k)' = Stored(k) /\ v \in learnt[k]
      BY <2>1, <2>3 DEF Stored
    <3> QED
      BY <2>2, <3>1
  <2>4. CASE /\ op = "KV_DELETE" /\ response' \in {"succeeded", "error"}
             /\ store' = [i \in DOMAIN store \ {new} |-> store[i]]
    <3>1. Stored(k)' = IF k = new THEN <<>> ELSE Stored(k)
      BY <2>4 DEF Stored
    <3> QED
      BY <1>6, <2>1, <2>2, <2>4, <3>1
  <2>5. CASE /\ op \in {"KV_INSERT", "KV_UPDATE"} /\ response' \in {"succeeded", "error"}
             /\ store' = [i \in DOMAIN store \cup {new} |->
                            IF i = new THEN value ELSE store[i]]
    <3>1. Stored(k)' = IF k = new THEN value ELSE Stored(k)
      BY <2>5 DEF Stored
    <3> QED
      BY <1>5, <2>1, <2>2, <2>5, <3>1
  <2> QED
    BY <1>1, <2>3, <2>4, <2>5 DEF value
<1> QED
  BY <1>7, <1>8 DEF Matches

(* Every step keeps the store and the user's knowledge together. *)
LEMMA KnownStep ==
  ASSUME KeysAreWords, KeysReadRight
  PROVE  IInv /\ TypedOK /\ ToldOK /\ KnownOK /\ [Next]_vars => KnownOK'
<1> SUFFICES ASSUME IInv, TypedOK, ToldOK, KnownOK, [Next]_vars,
                    whole', dpc' \notin Gone, cpc' # "gone"
             PROVE  Matches(Known)'
  BY DEF KnownOK
<1>1. ASSUME UNCHANGED store, Known' = Known, whole, dpc \notin Gone, cpc # "gone"
      PROVE  Matches(Known)'
  BY <1>1 DEF KnownOK, Matches, Stored
<1>2. CASE UNCHANGED vars
  <2>1. Known' = Known
    BY <1>2 DEF vars, Known, Learn
  <2> QED
    BY <1>1, <1>2, <2>1 DEF vars
<1>3. CASE \E text, request, next : cpc \in {"login", "menu"} /\ Send(text, request, next)
  <2>1. /\ UNCHANGED <<down, dpc, store, told, whole>> /\ cpc \in {"login", "menu"}
    BY <1>3 DEF Send
  <2>2. Idle /\ cpc # "gone"
    BY <2>1 DEF IInv, Exchange, Idle, Asking, Answering, Answered
  <2>3. Known = told /\ Known' = told
    BY <2>1, <2>2 DEF Idle, Known
  <2> QED
    BY <1>1, <2>1, <2>2, <2>3
<1>4. ASSUME NEW n \in 1 .. Len(down), Receive(n) PROVE Matches(Known)'
  <2>1. /\ whole /\ n = 2 /\ cpc \in {"authwait", "wait"} /\ down \in Seq(ResponseHalf)
        /\ UNCHANGED <<dpc, store>> /\ down' = SubSeq(down, n + 1, Len(down))
        /\ told' = Learn(SubSeq(down, 1, n)[1].status)
    BY <1>4 DEF Receive, IInv, Typing
  <2>2. Answered
    BY <1>4, <2>1 DEF IInv, Exchange, Idle, Asking, Answering
  <2>3. down' = <<>> /\ SubSeq(down, 1, n)[1] = down[1] /\ down # <<>>
    BY <2>1, <2>2 DEF Answered
  <2>4. Known = Learn(down[1].status)
    BY <2>2, <2>3 DEF Answered, Known
  <2>5. Known' = told'
    BY <2>1, <2>2, <2>3 DEF Answered, Known
  <2> QED
    BY <1>1, <2>1, <2>3, <2>4, <2>5
<1>5. CASE ReceiveNothing \/ ClientLeaves \/ ReadEnd \/ DaemonExits
  BY <1>5 DEF ReceiveNothing, ClientLeaves, ReadEnd, DaemonExits, Gone
<1>6. ASSUME NEW n \in 1 .. (IF Len(up) < BufLen THEN Len(up) ELSE BufLen), ReadCommand(n)
      PROVE  Matches(Known)'
  <2>1. /\ whole /\ dpc = "read" /\ dpc' = "handle"
        /\ UNCHANGED <<cpc, down, store, typed, told>>
    BY <1>6 DEF ReadCommand, client
  <2>2. up # <<>>
    BY <1>6, BufLenAssumption DEF IInv, Typing
  <2>3. down = <<>>
    BY <2>1, <2>2 DEF IInv, Exchange, Idle, Asking, Answering, Answered, Gone
  <2>4. Known = told /\ Known' = told
    BY <2>1, <2>3 DEF Known
  <2> QED
    BY <1>1, <2>1, <2>4 DEF Gone
<1>7. CASE HandleAuth \/ HandleSnapshot \/ HandleRefused
             \/ \E op \in StoreOperations : HandleOperation(op)
  <2>1. Handled
    BY <1>7, HandledOnEveryPath
  <2>2. /\ whole /\ dpc = "handle" /\ dpc' = "write" /\ cpc # "gone"
        /\ UNCHANGED <<down, typed, told>>
    BY <2>1 DEF Handled, client
  <2>3. line = asked /\ down = <<>> /\ line \in Seq(Bytes)
    BY <2>2 DEF IInv, Typing, Exchange, Idle, Asking, Answering, Answered, Gone
  <2>4. Known = told
    BY <2>2, <2>3 DEF Known
  <2>5. Matches(told)
    BY <2>2, <2>4 DEF KnownOK, Gone
  <2>6. Known' = Learn(response)'
    BY <2>2 DEF Known
  <2>7. CASE HandleAuth \/ HandleSnapshot \/ HandleRefused
    <3>1. store' = store /\ response' \notin {"succeeded", "error"}
      BY <2>7 DEF HandleAuth, HandleSnapshot, HandleRefused, Respond
    <3>2. Learn(response)' = told
      BY <2>2, <3>1, Zenon DEF Learn
    <3> QED
      BY <1>1, <2>2, <2>4, <2>6, <3>1, <3>2 DEF Gone
  <2>8. ASSUME NEW op \in StoreOperations, HandleOperation(op) PROVE Matches(Known)'
    <3>1. Matches(Learn(response))'
      BY <2>3, <2>5, <2>8, OperationKnown
    <3> QED
      BY <2>6, <3>1 DEF Matches
  <2> QED
    BY <1>7, <2>7, <2>8
<1>8. CASE WriteResponse
  <2>1. /\ dpc = "write" /\ UNCHANGED <<cpc, store, asked, typed, told, whole>>
    BY <1>8 DEF WriteResponse, history
  <2>2. peer = "open"
    BY <2>1 DEF IInv, Typing, Gone
  <2>3. down' = down \o Halves /\ dpc' = "read"
    BY <1>8, <2>2 DEF WriteResponse
  <2>4. down = <<>>
    BY <2>1 DEF IInv, Exchange, Idle, Asking, Answering, Answered, Gone
  <2>5. Halves \in Seq(ResponseHalf) /\ Halves # <<>> /\ Halves[1].status = response
    BY DEF Halves, ResponseHalf, IInv, Typing
  <2>6. down' = Halves
    BY <2>3, <2>4, <2>5
  <2>7. Known = Learn(response)
    BY <2>1 DEF Known
  <2>8. Known' = Learn(Halves[1].status)
    <3>1. Known' = Learn(down[1].status)'
      BY <2>3, <2>5, <2>6 DEF Known
    <3>2. Learn(down[1].status)' = Learn(down'[1].status)
      BY <2>1, Zenon DEF Learn
    <3> QED
      BY <2>6, <3>1, <3>2
  <2> QED
    BY <1>1, <2>1, <2>5, <2>7, <2>8 DEF Gone
<1> QED
  BY <1>2, <1>3, <1>4, <1>5, <1>6, <1>7, <1>8 DEF Next, Client, Daemon, auth_user, cli_menu

(* What the user typed is what the store has, back at a prompt, while       *)
(* messages are read in one piece: no operation takes a key or a value      *)
(* apart in another way than the client put it together, or tells the user  *)
(* of a change that it did not make (client.cpp:135-168, daemon.cpp:205-256,*)
(* 392-411).  The texts typed as keys are words, of which strtoull reads    *)
(* the digits right.                                                        *)
THEOREM StoresWhatWasTyped ==
  ASSUME KeysAreWords, KeysReadRight
  PROVE  Spec => []StoredAsTyped
<1>1. Init => KnownOK
  <2> SUFFICES ASSUME Init PROVE Matches(told)
    BY DEF Init, KnownOK, Known
  <2>1. Fits(<<>>, <<>>)
    BY DEF Fits, IsPrefix
  <2>2. \A k \in 0 .. MaxKey : Stored(k) = <<>> /\ <<>> \in told[k]
    BY DEF Init, Stored
  <2> QED
    BY <2>1, <2>2 DEF Matches
<1>2. IInv /\ KnownOK => StoredAsTyped
  <2> SUFFICES ASSUME IInv, KnownOK, whole, cpc \in {"login", "menu"}, dpc \notin Gone
               PROVE  Matches(told)
    BY DEF StoredAsTyped
  <2>1. Known = told
    BY DEF IInv, Exchange, Idle, Asking, Answering, Answered, Known
  <2> QED
    BY <2>1 DEF KnownOK
<1> QED
  BY <1>1, <1>2, KnownStep, Invariance, HistoryKept, PTL DEF Spec

=============================================================================
