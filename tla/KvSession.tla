----------------------------- MODULE KvSession -----------------------------
(***************************************************************************)
(* One connection: the command line client (user/client/client.cpp), the   *)
(* TCP stream, the daemon's thread for it (handle_client and what it calls *)
(* in user/daemon/daemon.cpp) and the login check (user/daemon/auth.cpp).  *)
(*                                                                         *)
(* TCP keeps no message boundaries: a read returns some of the bytes that  *)
(* have arrived, so a command may come in pieces, or run into the next.    *)
(* Text is a sequence of characters.  An operation's name counts as one    *)
(* character: cut anywhere, it gives two pieces that are both refused.     *)
(* A response has two halves, so that it can be cut as well.               *)
(*                                                                         *)
(* The thread's ioctl on the store is one step (KvLkm shows the races).    *)
(***************************************************************************)
EXTENDS Integers, Sequences, SequencesExt

CONSTANTS
  Characters, \* what the user can type
  Logins,     \* pairs of what the user types at "Username: " and "Password: "
  Accounts,   \* the pairs that PAM accepts
  KeyTexts,   \* what the user types at "Key: "
  ValueTexts, \* what the user types at "Value: "
  BufLen,     \* sizeof(buffer) - 1
  MaxValue,   \* MAX_VALUE_LEN - 1
  MaxKey,     \* ULLONG_MAX
  MaxSends    \* bound: the messages that the user lets the client send

ASSUME TextsAssumption ==
  /\ Logins \subseteq Seq(Characters) \X Seq(Characters)
  /\ KeyTexts \subseteq Seq(Characters)
  /\ ValueTexts \subseteq Seq(Characters)
ASSUME BufLenAssumption == BufLen \in Nat \ {0}
ASSUME SizesAssumption == MaxValue \in Nat \ {0} /\ MaxKey \in Nat /\ MaxSends \in Nat

VARIABLES
  cpc,      \* the client: at a prompt ("login", "menu"), reading ("authwait",
            \* "wait"), or "gone"
  up,       \* the bytes on their way to the daemon
  down,     \* the halves of responses on their way to the client
  peer,     \* the client's end as the daemon's kernel knows it: "open", "fin",
            \* "pipe" (closed and then reset) or "reset"
  dpc,      \* the daemon's thread: "read", "handle", "write", "closed"; or the
            \* process is gone: "exited", "killed" (by SIGPIPE)
  line,     \* its buffer
  authenticated,
  response, \* what it is about to write
  store,    \* the key-value store, as a function on the keys it has
  sends,    \* number of messages sent
  asked,    \* history: the message sent last
  typed,    \* history: the request that the user typed for it
  told,     \* history: told[k]: the values that key k may have (<<>>: none),
            \* by what the user has typed and the responses have said
  answered, \* history: the response read last answers it
  whole     \* history: each message and each response was read in one piece

vars == <<cpc, up, down, peer, dpc, line, authenticated, response, store, sends,
          asked, typed, told, answered, whole>>
client == <<cpc, sends, asked, typed, told, answered>>
history == <<sends, asked, typed, told, answered, whole>>

-----------------------------------------------------------------------------
(* std::istringstream and strtoull *)

Blank == " "
DigitOf == [c \in {"0", "1", "9"} |-> IF c = "0" THEN 0 ELSE IF c = "1" THEN 1 ELSE 9]

(* iss >> word: skips blanks, takes what is before the next one. *)
Extract(text) ==
  LET inked == {i \in DOMAIN text : text[i] # Blank}
      first == CHOOSE i \in inked : \A j \in inked : i <= j
      ends  == {i \in first .. Len(text) + 1 : i = Len(text) + 1 \/ text[i] = Blank}
      end   == CHOOSE i \in ends : \A j \in ends : i <= j
  IN  IF inked = {} THEN [ok |-> FALSE, word |-> <<>>, rest |-> <<>>]
      ELSE [ok |-> TRUE, word |-> SubSeq(text, first, end - 1),
            rest |-> SubSeq(text, end, Len(text))]

Operation(text) == Extract(text)
Arg1(text) == Extract(Operation(text).rest)
Arg2(text) == Extract(Arg1(text).rest)

(* The rest of the line without one leading blank *)
ValueOf(text) ==
  LET rest == Arg1(text).rest
  IN  IF rest # <<>> /\ rest[1] = Blank THEN Tail(rest) ELSE rest

(* Mutant of Strncpy: the place for the final NUL is not left out. *)
StrncpyOffByOne(value) ==
  SubSeq(value, 1, IF Len(value) < MaxValue + 1 THEN Len(value) ELSE MaxValue + 1)

(* strncpy(msg.value, value, MAX_VALUE_LEN - 1) and the final NUL *)
Strncpy(value) == SubSeq(value, 1, IF Len(value) < MaxValue THEN Len(value) ELSE MaxValue)

(* Mutant of parse_key: errno is not looked at, an overflow is ULLONG_MAX. *)
parse_keySaturates(word) ==
  LET signed == word # <<>> /\ word[1] \in {"-", "+"}
      digits == IF signed THEN Tail(word) ELSE word
      number == FoldLeft(LAMBDA n, c : 10 * n + DigitOf[c], 0, digits)
  IN  IF digits = <<>> \/ \E i \in DOMAIN digits : digits[i] \notin DOMAIN DigitOf
      THEN [ok |-> FALSE, key |-> 0]
      ELSE [ok |-> TRUE,
            key |-> IF number \notin 0 .. MaxKey THEN MaxKey
                    ELSE IF word[1] = "-" THEN (MaxKey + 1 - number) % (MaxKey + 1) ELSE number]

(* parse_key: a sign is accepted, a minus wraps around, an overflow is not. *)
parse_key(word) ==
  LET signed == word # <<>> /\ word[1] \in {"-", "+"}
      digits == IF signed THEN Tail(word) ELSE word
      number == FoldLeft(LAMBDA n, c : 10 * n + DigitOf[c], 0, digits)
  IN  IF \/ digits = <<>>
         \/ \E i \in DOMAIN digits : digits[i] \notin DOMAIN DigitOf
         \/ number \notin 0 .. MaxKey
      THEN [ok |-> FALSE, key |-> 0]
      ELSE [ok |-> TRUE,
            key |-> IF word[1] = "-" THEN (MaxKey + 1 - number) % (MaxKey + 1) ELSE number]

-----------------------------------------------------------------------------
(* The client *)

AuthMessage(l) == <<"AUTH", Blank>> \o l[1] \o <<Blank>> \o l[2]
KeyMessage(op, k) == <<op, Blank>> \o k
ValueMessage(op, k, v) == KeyMessage(op, k) \o <<Blank>> \o v

(* What the user asks for with the choices 1 to 5, and at login. *)
Requests ==
       [op : {"KV_INSERT", "KV_UPDATE"}, key : KeyTexts, value : ValueTexts]
  \cup [op : {"KV_GET", "KV_DELETE"}, key : KeyTexts, value : {<<>>}]
  \cup [op : {"KV_SNAPSHOT"}, key : {<<>>}, value : {<<>>}]

Login == [op |-> "AUTH", key |-> <<>>, value |-> <<>>]

(* What cli_menu sends. *)
MenuMessage(r) ==
  CASE r.op \in {"KV_INSERT", "KV_UPDATE"} -> ValueMessage(r.op, r.key, r.value)
    [] r.op \in {"KV_GET", "KV_DELETE"} -> KeyMessage(r.op, r.key)
    [] OTHER -> <<r.op>>

Messages == {AuthMessage(l) : l \in Logins} \cup {MenuMessage(r) : r \in Requests}

Gone == {"closed", "exited", "killed"}

(* send, then wait in read at the label next.  To a daemon that is gone the *)
(* bytes go nowhere; that a second such send is answered by SIGPIPE is one  *)
(* of the ways of ClientLeaves.                                             *)
Send(text, request, next) ==
  /\ sends < MaxSends
  /\ sends' = sends + 1
  /\ asked' = text
  /\ typed' = request
  /\ up' = up \o text
  /\ cpc' = next
  /\ UNCHANGED <<down, peer, dpc, line, authenticated, response, store, told, answered, whole>>

auth_user(l) == cpc = "login" /\ Send(AuthMessage(l), Login, "authwait")

cli_menu(r) == cpc = "menu" /\ Send(MenuMessage(r), r, "wait")

(* The answers of resp.find("OK"): of the two halves of that response, cut  *)
(* anywhere, the first may have the letters or not.  (No user has a         *)
(* password with an OK in it that "Unknown operation" could echo.)          *)
FoundOK(chunk) ==
  LET OKs == {i \in 1 .. Len(chunk) : chunk[i].half = 1 /\ chunk[i].status = "OK"}
  IN  {found \in BOOLEAN : (found => OKs # {}) /\ (OKs \ {Len(chunk)} # {} => found)}

(* The number that the user means by a key: the sum of its digits, each     *)
(* with the weight of its place, and counted down from the top after a      *)
(* minus, as the manual of strtoull has it.                                 *)
KeyMeant(text) ==
  LET signed == text[1] \in {"-", "+"}
      size == MapThenSumSet(LAMBDA i : DigitOf[text[i]] * 10 ^ (Len(text) - i),
                            (IF signed THEN 2 ELSE 1) .. Len(text))
  IN  IF text[1] = "-" THEN (- size) % (MaxKey + 1) ELSE size

(* What the user knows of the store after a response of this status.  After *)
(* "ioctl failed" the request may have been carried out or not.             *)
Learn(status) ==
  LET key == KeyMeant(typed.key)
      new == {IF typed.op = "KV_DELETE" THEN <<>> ELSE typed.value}
  IN  IF typed.op \in {"KV_INSERT", "KV_UPDATE", "KV_DELETE"} /\ status \in {"succeeded", "error"}
      THEN [k \in 0 .. MaxKey |-> IF k # key THEN told[k]
                                  ELSE IF status = "succeeded" THEN new ELSE told[k] \cup new]
      ELSE told

(* read returns the first n of the halves that have arrived. *)
Receive(n) ==
  LET chunk == SubSeq(down, 1, n) IN
  /\ cpc \in {"authwait", "wait"}
  /\ down' = SubSeq(down, n + 1, Len(down))
  /\ \E found \in FoundOK(chunk) :
       cpc' = IF cpc = "wait" \/ found THEN "menu" ELSE "login"
  /\ answered' = chunk[1].answers
  /\ told' = Learn(chunk[1].status)
  /\ whole' = (whole /\ n = 2)
  /\ UNCHANGED <<up, peer, dpc, line, authenticated, response, store, sends, asked, typed>>

(* read fails or finds the connection closed: auth_user gives up, the menu  *)
(* goes on.  What had arrived is lost if the daemon's end was reset.        *)
ReceiveNothing ==
  /\ cpc \in {"authwait", "wait"}
  /\ dpc \in Gone
  /\ down = <<>> \/ up # <<>>
  /\ cpc' = IF cpc = "wait" THEN "menu" ELSE "gone"
  /\ UNCHANGED <<up, down, peer, dpc, line, authenticated, response, store, history>>

(* Choice 6, or the client is killed at any point.  Closing with unread     *)
(* data resets the connection; so does a response that arrives too late.    *)
ClientLeaves ==
  /\ cpc # "gone"
  /\ cpc' = "gone"
  /\ peer' \in IF down = <<>> THEN {"fin"} ELSE {"fin", "pipe", "reset"}
  /\ UNCHANGED <<up, down, dpc, line, authenticated, response, store, history>>

-----------------------------------------------------------------------------
(* handle_client *)

(* read puts the first n of the bytes that have arrived into the buffer. *)
ReadCommand(n) ==
  /\ dpc = "read"
  /\ line' = SubSeq(up, 1, n) \o SubSeq(line, n + 1, Len(line))
  /\ up' = SubSeq(up, n + 1, Len(up))
  /\ whole' = (whole /\ SubSeq(up, 1, n) = asked)
  /\ dpc' = "handle"
  /\ UNCHANGED <<client, down, peer, authenticated, response, store>>

(* Mutant of ReadEnd: n == 0 is taken for an empty command. *)
ReadEndIgnored ==
  /\ dpc = "read"
  /\ peer = "reset" \/ (up = <<>> /\ peer # "open")
  /\ dpc' = "handle"
  /\ UNCHANGED <<cpc, up, down, peer, line, authenticated, response, store, history>>

(* n == 0, or n < 0 after a reset: close(client_fd) *)
ReadEnd ==
  /\ dpc = "read"
  /\ peer = "reset" \/ (up = <<>> /\ peer # "open")
  /\ dpc' = "closed"
  /\ UNCHANGED <<cpc, up, down, peer, line, authenticated, response, store, history>>

(* parse_and_handle_command returns text of this kind. *)
Respond(status) == response' = status /\ dpc' = "write"

(* A response, as the two halves that TCP may separate. *)
Halves ==
  [i \in 1 .. 2 |-> [half |-> i, status |-> response, answers |-> line = asked]]

(* Mutant of ClearBuffer: no memset. *)
ClearBufferNot == UNCHANGED line

(* memset, at the top of the loop *)
ClearBuffer == line' = <<>>

(* write, and round the loop to the next read.  To a client that has closed *)
(* its end the first write is lost and draws a reset; the next one is       *)
(* answered by SIGPIPE, which nobody handles.  After a plain reset it       *)
(* fails, and the thread closes its end.                                    *)
WriteResponse ==
  /\ dpc = "write"
  /\ IF peer = "open"
     THEN down' = down \o Halves /\ UNCHANGED peer
     ELSE UNCHANGED down /\ peer' \in IF peer = "fin" THEN {"fin", "pipe"} ELSE {peer}
  /\ dpc' = IF peer = "pipe" THEN "killed" ELSE IF peer = "reset" THEN "closed" ELSE "read"
  /\ response' = "none"
  /\ ClearBuffer
  /\ UNCHANGED <<cpc, up, authenticated, store, history>>

(* The process ends: a signal, a kill, the end of main. *)
DaemonExits ==
  /\ dpc \notin Gone
  /\ dpc' = "exited"
  /\ UNCHANGED <<cpc, up, down, peer, line, authenticated, response, store, history>>

-----------------------------------------------------------------------------
(* parse_and_handle_command and do_kv_operation *)

Handling(op) == dpc = "handle" /\ Operation(line).word = <<op>>

StoreOperations == {"KV_INSERT", "KV_UPDATE", "KV_GET", "KV_DELETE"}

(* None of the early returns is taken for an operation with a key. *)
Accepted(op) ==
  /\ authenticated
  /\ Arg1(line).ok
  /\ op \in {"KV_INSERT", "KV_UPDATE"} => ValueOf(line) # <<>>
  /\ parse_key(Arg1(line).word).ok

(* The answers of authenticate: pam_start, pam_authenticate and             *)
(* pam_acct_mgmt all succeed only for an account, and each may fail.        *)
authenticate(user, password) == {FALSE, <<user, password>> \in Accounts}

(* Mutant of HandleAuth: a failed login takes the connection's rights. *)
HandleAuthReset ==
  /\ Handling("AUTH")
  /\ Arg2(line).ok
  /\ \E ok \in authenticate(Arg1(line).word, Arg2(line).word) :
       authenticated' = ok /\ Respond(IF ok THEN "OK" ELSE "FAIL")
  /\ UNCHANGED <<client, up, down, peer, line, store, whole>>

HandleAuth ==
  /\ Handling("AUTH")
  /\ Arg2(line).ok
  /\ \E ok \in authenticate(Arg1(line).word, Arg2(line).word) :
       authenticated' = (ok \/ authenticated) /\ Respond(IF ok THEN "OK" ELSE "FAIL")
  /\ UNCHANGED <<client, up, down, peer, line, store, whole>>

(* do_kv_snapshot_to_file does not change the store. *)
HandleSnapshot ==
  /\ Handling("KV_SNAPSHOT")
  /\ authenticated
  /\ Respond("Snap")
  /\ UNCHANGED <<client, up, down, peer, line, authenticated, store, whole>>

(* The store after the operation of this command. *)
Effect(op) ==
  LET key == parse_key(Arg1(line).word).key IN
  CASE op = "KV_GET" -> store
    [] op = "KV_DELETE" -> [k \in DOMAIN store \ {key} |-> store[k]]
    [] OTHER -> [k \in DOMAIN store \cup {key} |->
                   IF k = key THEN Strncpy(ValueOf(line)) ELSE store[k]]

(* One ioctl: it succeeds; or its status is a failure, and it has changed   *)
(* nothing; or it returns an error ("ioctl failed"), which it also does     *)
(* when only the copy_to_user of the result has failed.                     *)
HandleOperation(op) ==
  /\ Handling(op)
  /\ Accepted(op)
  /\ \E status \in {"succeeded", "failed", "error"} :
       /\ Respond(status)
       /\ \/ /\ status # "failed"
             /\ parse_key(Arg1(line).word).key \in DOMAIN store <=> op # "KV_INSERT"
             /\ store' = Effect(op)
          \/ status # "succeeded" /\ UNCHANGED store
  /\ UNCHANGED <<client, up, down, peer, line, authenticated, whole>>

(* Mutant of HandleRefused: an incomplete AUTH is skipped without a response. *)
HandleRefusedSilent ==
  /\ dpc = "handle"
  /\ ~ Handling("AUTH") \/ ~ Arg2(line).ok
  /\ ~ Handling("KV_SNAPSHOT") \/ ~ authenticated
  /\ \A op \in StoreOperations : ~ (Handling(op) /\ Accepted(op))
  /\ IF Handling("AUTH") THEN dpc' = "read" /\ UNCHANGED response ELSE Respond("refused")
  /\ UNCHANGED <<client, up, down, peer, line, authenticated, store, whole>>

(* All the early returns: no command, no user name or password, not         *)
(* authenticated, no key, no value, unknown operation, not a key.           *)
HandleRefused ==
  /\ dpc = "handle"
  /\ ~ Handling("AUTH") \/ ~ Arg2(line).ok
  /\ ~ Handling("KV_SNAPSHOT") \/ ~ authenticated
  /\ \A op \in StoreOperations : ~ (Handling(op) /\ Accepted(op))
  /\ Respond("refused")
  /\ UNCHANGED <<client, up, down, peer, line, authenticated, store, whole>>

-----------------------------------------------------------------------------

Init ==
  /\ cpc = "login" /\ peer = "open" /\ dpc = "read"
  /\ up = <<>> /\ down = <<>> /\ line = <<>>
  /\ authenticated = FALSE
  /\ response = "none"
  /\ store = [k \in {} |-> <<>>]
  /\ sends = 0
  /\ asked = <<>> /\ typed = Login
  /\ told = [k \in 0 .. MaxKey |-> {<<>>}]
  /\ answered = TRUE /\ whole = TRUE

Client ==
  \/ \E l \in Logins : auth_user(l)
  \/ \E r \in Requests : cli_menu(r)
  \/ \E n \in 1 .. Len(down) : Receive(n)
  \/ ReceiveNothing \/ ClientLeaves

Daemon ==
  \/ \E n \in 1 .. (IF Len(up) < BufLen THEN Len(up) ELSE BufLen) : ReadCommand(n)
  \/ ReadEnd \/ WriteResponse
  \/ HandleAuth \/ HandleSnapshot \/ HandleRefused
  \/ \E op \in StoreOperations : HandleOperation(op)
  \/ DaemonExits

Next == Client \/ Daemon

Spec == Init /\ [][Next]_vars

-----------------------------------------------------------------------------

TypeOK ==
  /\ cpc \in {"login", "authwait", "menu", "wait", "gone"}
  /\ peer \in {"open", "fin", "pipe", "reset"}
  /\ dpc \in {"read", "handle", "write"} \cup Gone
  /\ response \in {"none", "OK", "FAIL", "Snap", "succeeded", "failed", "error",
                  "refused"}
  /\ authenticated \in BOOLEAN /\ whole \in BOOLEAN
  /\ sends \in 0 .. MaxSends
  /\ asked \in Messages \cup {<<>>} /\ typed \in Requests \cup {Login}
  /\ told \in [0 .. MaxKey -> SUBSET (ValueTexts \cup {<<>>})]
  /\ Len(line) <= BufLen
  /\ \A k \in DOMAIN store : k \in 0 .. MaxKey /\ Len(store[k]) \in 1 .. MaxValue
  /\ \A i \in DOMAIN down : down[i].half \in {1, 2}

(* The client that shows its menu is right to do so: the connection is      *)
(* authenticated, however the login messages and their answers were cut,    *)
(* merged or delayed.  An "OK" may be read as the answer to a later login   *)
(* that failed; it is still true, because no failed AUTH takes the          *)
(* connection's rights away (daemon.cpp:225-231, client.cpp:82-85).         *)
MenuOnlyWhenLoggedIn == cpc \in {"menu", "wait"} => authenticated

(* As long as every message is read in one piece, the response shown to the *)
(* user answers the message just sent, and nothing is left over in either   *)
(* direction when the client is back at a prompt: one response per message  *)
(* on every path through parse_and_handle_command (daemon.cpp:174-198).     *)
InStep ==
  whole /\ cpc \in {"login", "menu"} /\ dpc \notin Gone =>
    answered /\ up = <<>> /\ down = <<>> /\ dpc = "read"

(* A client may leave at any moment without taking the daemon with it, if   *)
(* its messages are read in one piece: SIGPIPE needs a second response to a *)
(* connection that is closed already (daemon.cpp:194).                      *)
SigpipeNeedsPieces == dpc = "killed" => ~ whole

(* What the store has for a key, and whether it is what was typed. *)
Stored(key) == IF key \in DOMAIN store THEN store[key] ELSE <<>>
Fits(string, text) == IsPrefix(string, text) /\ (Len(string) < Len(text) => Len(string) = MaxValue)

(* The store agrees with what the user can know of it. *)
Matches(known) == \A key \in 0 .. MaxKey : \E v \in known[key] : Fits(Stored(key), v)

(* What the user typed is what the store has: back at a prompt, as long as  *)
(* everything was read in one piece, each key has the value that was typed  *)
(* with it in the last request that is said to have succeeded, blank        *)
(* characters included, up to MAX_VALUE_LEN - 1; and no entry if that was a *)
(* DELETE, or if there was none.  Where an "ioctl failed" came after it,    *)
(* the request that failed may have been carried out.  A key stands for the *)
(* number it spells (client.cpp:135-168, daemon.cpp:24-33, 205-256,         *)
(* 392-411).                                                                *)
StoredAsTyped ==
  whole /\ cpc \in {"login", "menu"} /\ dpc \notin Gone => Matches(told)

(* Client and daemon never wait for each other: while the client waits for  *)
(* a response, whatever the pieces, there are bytes on their way, a command *)
(* in hand, or the daemon's end is gone (daemon.cpp:177-198, client.cpp:75, *)
(* 186).                                                                    *)
NoMutualWait ==
  cpc \in {"authwait", "wait"} =>
    up # <<>> \/ down # <<>> \/ dpc \in {"handle", "write"} \cup Gone

=============================================================================
