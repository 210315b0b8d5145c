---------------------------- MODULE ClaudeLogin -----------------------------
(***************************************************************************)
(* The Claude login ("llm setup", llm_setup.go), several of which may be   *)
(* started, and the LLM proxy of another process that uses their token     *)
(* file (llm.go).                                                          *)
(*                                                                         *)
(* A login serves the browser's callbacks on a local port.  Each handler   *)
(* sends on one of two channels of capacity one; the main goroutine takes  *)
(* one message or times out, exchanges the code, writes the token file in  *)
(* place and, deferred, closes the port and waits in Shutdown for the      *)
(* handlers.  The proxy reads the file for every request, and twice: to    *)
(* route it and to send it.                                                *)
(***************************************************************************)
EXTENDS Naturals

CONSTANTS
    Logins,         \* runs of the command
    NoLogin,        \* the writer of a file that was there before them, or is removed
    EnvKeys,        \* the sets of providers the proxy's environment may have a key of
    Requests,       \* requests for a Claude model the proxy handles
    MaxCallbacks    \* bound: callbacks to a login

ASSUME LoginAssumption == /\ NoLogin \notin Logins
                          /\ EnvKeys \subseteq SUBSET {"claude", "other"}
                          /\ MaxCallbacks \in Nat

VARIABLES
    file,       \* the token file: absent, torn, whole, or without a token
    writer,     \* the last login that truncated or wrote the file
    pc,         \* per login, where it is
    arrived,    \* per login, the callbacks the browser made
    handlers,   \* per login and kind, the handlers that have not sent yet
    buffer,     \* per login, codeCh and errCh
    envKeys,    \* the providers the environment has a key of
    proxy,      \* the proxy serves
    request,    \* per request, where its handler is
    overtaken   \* history: the routed requests whose file was emptied since

Channels == <<arrived, handlers, buffer>>
proxyVars == <<envKeys, proxy, request>>
vars == <<file, writer, pc, Channels, proxyVars, overtaken>>

Kinds == {"code", "err"}
Zero == [k \in Kinds |-> 0]

Files == {"absent", "torn", "whole", "tokenless"}
LoginPc == {"off", "prompt", "listen", "wait", "exchange", "open", "write",
            "failed", "saved",      \* in Shutdown, after an error or a save
            "ended", "reported"}    \* over; "Token saved" was printed
RequestPc == {"idle", "routed", "refused", "sent", "keyless", "unread"}

Init ==
    /\ file \in {"absent", "whole"}
    /\ writer = NoLogin
    /\ pc = [l \in Logins |-> "off"]
    /\ arrived = [l \in Logins |-> 0]
    /\ handlers = [l \in Logins |-> Zero]
    /\ buffer = [l \in Logins |-> Zero]
    /\ envKeys \in EnvKeys
    /\ proxy = FALSE
    /\ request = [r \in Requests |-> "idle"]
    /\ overtaken = {}

(* What loadToken and getClaudeKey may find.  What is left of a torn file  *)
(* is no JSON; and whatever the file is, reading it may fail.              *)
LoadToken == {"failed", IF file = "whole" THEN "token" ELSE "none"}
GetClaudeKey == IF "claude" \in envKeys THEN {"env"} ELSE LoadToken
IsKey(key) == key \in {"env", "token"}

-----------------------------------------------------------------------------
(* runLLMSetup and runClaudeOAuth *)

Goto(l, next) == pc' = [pc EXCEPT ![l] = next]

(* An existing token makes the command ask first.                          *)
Setup(l) ==
    /\ pc[l] = "off"
    /\ \E token \in LoadToken : Goto(l, IF IsKey(token) THEN "prompt" ELSE "listen")
    /\ UNCHANGED <<file, writer, Channels, proxyVars, overtaken>>

Prompt(l) ==
    /\ pc[l] = "prompt"
    /\ \E next \in {"listen", "ended"} : Goto(l, next)
    /\ UNCHANGED <<file, writer, Channels, proxyVars, overtaken>>

(* Slip: the server is shut down as soon as the code is exchanged.         *)
SlipShutdownEarly(l) == pc[l] \in {"wait", "exchange"}

(* The port is a login's until its deferred Shutdown closes the listener.  *)
HoldsPort(l) == pc[l] \in {"wait", "exchange", "open", "write"}

(* Without the port the command exits.                                     *)
Listen(l) ==
    /\ pc[l] = "listen"
    /\ \/ (\A m \in Logins : ~HoldsPort(m)) /\ Goto(l, "wait")
       \/ Goto(l, "ended")
    /\ UNCHANGED <<file, writer, Channels, proxyVars, overtaken>>

(* The browser calls back, with a code or with something that is refused   *)
(* (another login's state, no code), as long as the listener is open.      *)
Callback(l, k) ==
    /\ HoldsPort(l)
    /\ arrived[l] < MaxCallbacks
    /\ arrived' = [arrived EXCEPT ![l] = @ + 1]
    /\ handlers' = [handlers EXCEPT ![l][k] = @ + 1]
    /\ UNCHANGED <<file, writer, pc, buffer, proxyVars, overtaken>>

(* Slip: the channels are unbuffered.                                      *)
SlipUnbuffered(l, k) == pc[l] = "wait" /\ buffer[l][k] = 0

HasRoom(l, k) == buffer[l][k] < 1

(* Slip: a handler blocked on a full channel sends all the same.           *)
SlipSendsWhenFull(l, k) ==
    /\ handlers[l][k] > 0
    /\ handlers' = [handlers EXCEPT ![l][k] = @ - 1]
    /\ buffer' = [buffer EXCEPT ![l][k] = @ + 1]
    /\ UNCHANGED <<file, writer, pc, arrived, proxyVars, overtaken>>

(* The handler sends and writes its page; it blocks on a full channel.     *)
HandlerSends(l, k) ==
    /\ handlers[l][k] > 0
    /\ HasRoom(l, k)
    /\ handlers' = [handlers EXCEPT ![l][k] = @ - 1]
    /\ buffer' = [buffer EXCEPT ![l][k] = @ + 1]
    /\ UNCHANGED <<file, writer, pc, arrived, proxyVars, overtaken>>

(* The select: a code, an error, or five minutes.                          *)
Receive(l, k) ==
    /\ pc[l] = "wait" /\ buffer[l][k] > 0
    /\ buffer' = [buffer EXCEPT ![l][k] = @ - 1]
    /\ Goto(l, IF k = "code" THEN "exchange" ELSE "failed")
    /\ UNCHANGED <<file, writer, arrived, handlers, proxyVars, overtaken>>

TimeOut(l) ==
    /\ pc[l] = "wait"
    /\ Goto(l, "failed")
    /\ UNCHANGED <<file, writer, Channels, proxyVars, overtaken>>

(* The token endpoint answers, well or badly; the request has no deadline. *)
Exchange(l) ==
    /\ pc[l] = "exchange"
    /\ \E next \in {"open", "failed"} : Goto(l, next)
    /\ UNCHANGED <<file, writer, Channels, proxyVars, overtaken>>

Overtake == overtaken' = overtaken \cup {r \in Requests : request[r] = "routed"}

(* saveToken: os.WriteFile truncates the file, then writes it; either may  *)
(* fail.                                                                   *)
OpenFile(l) ==
    /\ pc[l] = "open"
    /\ \/ file' = "torn" /\ writer' = l /\ Overtake /\ Goto(l, "write")
       \/ UNCHANGED <<file, writer, overtaken>> /\ Goto(l, "failed")
    /\ UNCHANGED <<Channels, proxyVars>>

(* What a write leaves: nothing in a file that was removed meanwhile, and a*)
(* mixture in one that another login has truncated or written.  An answer  *)
(* of the endpoint without an access token is saved too.                   *)
Written(l) == CASE writer = NoLogin -> {file}
                [] writer = l -> {"whole", "tokenless"}
                [] OTHER -> {"torn"}

WriteFile(l) ==
    /\ pc[l] = "write"
    /\ \/ file' \in Written(l) /\ \E next \in {"saved", "failed"} : Goto(l, next)
       \/ writer # NoLogin /\ file' = "torn" /\ Goto(l, "failed")
    /\ writer' = IF writer = NoLogin THEN NoLogin ELSE l
    /\ UNCHANGED <<Channels, proxyVars, overtaken>>

Quit(l, end) ==
    /\ Goto(l, end)
    /\ arrived' = [arrived EXCEPT ![l] = 0]
    /\ handlers' = [handlers EXCEPT ![l] = Zero]
    /\ buffer' = [buffer EXCEPT ![l] = Zero]
    /\ UNCHANGED <<file, writer, proxyVars, overtaken>>

(* Shutdown(context.Background()) returns when no handler runs; the command*)
(* prints that the token is saved, or the error.                           *)
ServerStops(l) ==
    /\ handlers[l] = Zero
    /\ \/ pc[l] = "saved" /\ Quit(l, "reported")
       \/ pc[l] = "failed" /\ Quit(l, "ended")

(* The user interrupts the command.                                        *)
Kill(l) == pc[l] \notin {"off", "ended", "reported"} /\ Quit(l, "ended")

(* The user logs out, for which there is no command: the file is removed.  *)
Remove ==
    /\ file # "absent"
    /\ file' = "absent" /\ writer' = NoLogin /\ Overtake
    /\ UNCHANGED <<pc, Channels, proxyVars>>

-----------------------------------------------------------------------------
(* The proxy *)

(* startLLMProxy: without a key of any provider it returns at once.        *)
StartProxy ==
    /\ ~proxy
    /\ "other" \in envKeys \/ \E key \in GetClaudeKey : IsKey(key)
    /\ proxy' = TRUE
    /\ UNCHANGED <<file, writer, pc, Channels, envKeys, request, overtaken>>

(* Slip: the request is routed by its model alone.                         *)
SlipRouteByModel(r) ==
    /\ proxy /\ request[r] = "idle"
    /\ request' = [request EXCEPT ![r] = "routed"]
    /\ UNCHANGED <<file, writer, pc, Channels, envKeys, proxy, overtaken>>

(* routeLLM: without a key the request is refused.                         *)
RouteLLM(r) ==
    /\ proxy /\ request[r] = "idle"
    /\ \E key \in GetClaudeKey :
          request' = [request EXCEPT ![r] = IF IsKey(key) THEN "routed" ELSE "refused"]
    /\ UNCHANGED <<file, writer, pc, Channels, envKeys, proxy, overtaken>>

(* callAnthropic reads the key again and sends what it gets: nothing, if   *)
(* there is no file or no token in it ("keyless"), or if the read failed   *)
(* for another reason ("unread").                                          *)
CallAnthropic(r) ==
    /\ request[r] = "routed"
    /\ \E key \in GetClaudeKey :
          request' = [request EXCEPT ![r] = CASE IsKey(key) -> "sent"
                                              [] key = "none" -> "keyless"
                                              [] key = "failed" -> "unread"]
    /\ overtaken' = overtaken \ {r}
    /\ UNCHANGED <<file, writer, pc, Channels, envKeys, proxy>>

(* The client gets an answer or a 502.                                     *)
Answer(r) ==
    /\ request[r] \in {"refused", "sent", "keyless", "unread"}
    /\ request' = [request EXCEPT ![r] = "idle"]
    /\ UNCHANGED <<file, writer, pc, Channels, envKeys, proxy, overtaken>>

-----------------------------------------------------------------------------

(* What runs by itself once a login listens, but for the exchange.         *)
Login(l) == \/ Listen(l) \/ TimeOut(l) \/ OpenFile(l) \/ WriteFile(l) \/ ServerStops(l)
            \/ \E k \in Kinds : HandlerSends(l, k) \/ Receive(l, k)

Proxy == StartProxy \/ \E r \in Requests : RouteLLM(r) \/ CallAnthropic(r) \/ Answer(r)

Next == \/ \E l \in Logins : \/ Setup(l) \/ Prompt(l) \/ Login(l) \/ Exchange(l) \/ Kill(l)
                             \/ \E k \in Kinds : Callback(l, k)
        \/ Remove \/ Proxy

(* Goroutines are scheduled and the timer fires.                           *)
Spec == Init /\ [][Next]_vars /\ \A l \in Logins : WF_vars(Login(l))

-----------------------------------------------------------------------------
(* Properties *)

TypeOK ==
    /\ file \in Files
    /\ writer \in Logins \cup {NoLogin}
    /\ pc \in [Logins -> LoginPc]
    /\ arrived \in [Logins -> 0..MaxCallbacks]
    /\ handlers \in [Logins -> [Kinds -> 0..MaxCallbacks]]
    /\ buffer \in [Logins -> [Kinds -> 0..1]]
    /\ envKeys \in EnvKeys /\ proxy \in BOOLEAN
    /\ request \in [Requests -> RequestPc]
    /\ overtaken \subseteq Requests

(* A login that says "Token saved" (llm_setup.go:264) left no torn file,    *)
(* whatever other logins did before, beside and after it: if the file is   *)
(* torn, the last login that touched it is still writing, failed or was    *)
(* killed.  Nothing locks the file; what keeps two logins from writing at  *)
(* once is the port, which each holds until its token is written.          *)
SavedIsWhole ==
    file = "torn" => writer # NoLogin /\ pc[writer] \notin {"saved", "reported"}

(* More callbacks of a kind than its channel holds, and no receiver: the   *)
(* handler blocks, and Shutdown with it.                                   *)
Overflow(l) == /\ pc[l] \in {"failed", "saved"}
               /\ \E k \in Kinds : handlers[l][k] > 0 /\ buffer[l][k] = 1

(* A login that waits for its callback or saves its token ends, although   *)
(* Shutdown has no deadline (llm_setup.go:161), unless a second callback   *)
(* of a kind nobody receives overflows its channel; only the exchange may  *)
(* take for ever.                                                          *)
LoginEnds ==
    \A l \in Logins :
        pc[l] \in {"listen", "wait", "open", "write", "failed", "saved"}
            ~> (pc[l] \in {"ended", "reported", "exchange"} \/ Overflow(l))

(* A request that was routed because there was a key goes out without one, *)
(* unless a read that failed by itself is the reason, only if in between a *)
(* login truncated the file or the user removed it (llm.go: routeLLM looks *)
(* at the key, callAnthropic reads it again).                              *)
KeylessOnlyIfOvertaken ==
    [][\A r \in Requests :
          request[r] # "keyless" /\ request'[r] = "keyless" => r \in overtaken]_vars
=============================================================================
