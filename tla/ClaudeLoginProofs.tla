------------------------- MODULE ClaudeLoginProofs --------------------------
(***************************************************************************)
(* The token file beside any number of logins, callbacks, failures,        *)
(* interruptions and removals, and what the proxy sends meanwhile, for     *)
(* every set of logins and requests.                                       *)
(*                                                                         *)
(* SavedIsWhole is about the bytes of a file that nothing locks.  PortInv  *)
(* says that at most one login holds the port, WriterInv that therefore    *)
(* nobody else has touched a file that a login writes.                     *)
(*                                                                         *)
(* KeylessOnlyIfOvertaken compares two reads of the key.  RoutedInv        *)
(* remembers the first of them.                                            *)
(***************************************************************************)
EXTENDS ClaudeLogin, Integers, TLAPS

(* Every handler was started by a callback.                                *)
HandlersInv == \A l \in Logins : handlers[l]["code"] + handlers[l]["err"] <= arrived[l]

PortInv == \A l, m \in Logins : HoldsPort(l) /\ HoldsPort(m) => l = m

(* A file that is being written is empty and the writer's, or removed.     *)
WriterInv ==
    \A l \in Logins :
        pc[l] = "write" => writer = NoLogin \/ (writer = l /\ file = "torn")

RoutedInv ==
    \A r \in Requests :
        request[r] = "routed" /\ r \notin overtaken => "claude" \in envKeys \/ file = "whole"

LoginInv == TypeOK /\ HandlersInv /\ PortInv /\ WriterInv /\ SavedIsWhole /\ RoutedInv

LEMMA InitInv == Init => LoginInv
<1> SUFFICES ASSUME Init PROVE LoginInv
  OBVIOUS
<1> USE LoginAssumption DEF Init
<1>1. TypeOK
  <2>1. Zero \in [Kinds -> 0..MaxCallbacks] /\ Zero \in [Kinds -> 0..1]
    BY DEF Zero
  <2>2. /\ arrived \in [Logins -> 0..MaxCallbacks]
        /\ handlers \in [Logins -> [Kinds -> 0..MaxCallbacks]]
        /\ buffer \in [Logins -> [Kinds -> 0..1]]
    BY <2>1
  <2> QED  BY <2>2 DEF TypeOK, Files, LoginPc, RequestPc
<1>2. HandlersInv
  <2>1. Zero["code"] = 0 /\ Zero["err"] = 0
    BY DEF Zero, Kinds
  <2>2. ASSUME NEW l \in Logins
        PROVE  handlers[l]["code"] + handlers[l]["err"] <= arrived[l]
    <3>1. arrived[l] = 0 /\ handlers[l]["code"] = 0 /\ handlers[l]["err"] = 0
      BY <2>1
    <3>2. 0 + 0 <= 0
      OBVIOUS
    <3> QED  BY <3>1, <3>2
  <2> QED  BY <2>2 DEF HandlersInv
<1>3. PortInv /\ WriterInv /\ SavedIsWhole /\ RoutedInv
  BY DEF PortInv, HoldsPort, WriterInv, SavedIsWhole, RoutedInv
<1> QED  BY <1>1, <1>2, <1>3 DEF LoginInv

(* A step of a login that does not touch the file: it takes no port,       *)
(* begins no write, and says "saved" only after it was.                    *)
LEMMA MoveInv ==
    ASSUME LoginInv, NEW l \in Logins, NEW next \in LoginPc, Goto(l, next),
           UNCHANGED <<file, writer, proxyVars, overtaken>>,
           next \in {"wait", "exchange", "open"} => HoldsPort(l),
           next # "write", next # "saved",
           next = "reported" => pc[l] = "saved",
           arrived' \in [Logins -> 0..MaxCallbacks],
           handlers' \in [Logins -> [Kinds -> 0..MaxCallbacks]],
           buffer' \in [Logins -> [Kinds -> 0..1]],
           HandlersInv'
    PROVE  LoginInv'
<1>1. /\ pc' \in [Logins -> LoginPc] /\ pc'[l] = next
      /\ \A m \in Logins \ {l} : pc'[m] = pc[m]
  BY DEF Goto, LoginInv, TypeOK
<1>2. TypeOK'
  BY <1>1 DEF LoginInv, TypeOK, proxyVars
<1>3. \A m \in Logins : HoldsPort(m)' => HoldsPort(m)
  BY <1>1 DEF HoldsPort
<1>4. PortInv'
  BY <1>3 DEF LoginInv, PortInv
<1>5. WriterInv'
  BY <1>1 DEF LoginInv, WriterInv
<1>6. SavedIsWhole'
  BY <1>1 DEF LoginInv, SavedIsWhole, TypeOK
<1>7. RoutedInv'
  BY DEF LoginInv, RoutedInv, proxyVars
<1> QED  BY <1>2, <1>4, <1>5, <1>6, <1>7 DEF LoginInv

LEMMA PhaseInv ==
    ASSUME LoginInv, NEW l \in Logins, NEW next \in LoginPc, Goto(l, next),
           UNCHANGED <<file, writer, Channels, proxyVars, overtaken>>,
           next \in {"wait", "exchange", "open"} => HoldsPort(l),
           next # "write", next # "saved", next # "reported"
    PROVE  LoginInv'
<1>1. HandlersInv'
  BY DEF LoginInv, HandlersInv, Channels
<1>2. /\ arrived' \in [Logins -> 0..MaxCallbacks]
      /\ handlers' \in [Logins -> [Kinds -> 0..MaxCallbacks]]
      /\ buffer' \in [Logins -> [Kinds -> 0..1]]
  BY DEF LoginInv, TypeOK, Channels
<1> QED  BY <1>1, <1>2, MoveInv

(* The port is taken only when nobody has it.                              *)
LEMMA ListenInv ==
    ASSUME LoginInv, NEW l \in Logins, Listen(l)
    PROVE  LoginInv'
<1>1. CASE Goto(l, "ended")
  <2>1. "ended" \in LoginPc
    BY DEF LoginPc
  <2> QED  BY <1>1, <2>1, PhaseInv DEF Listen
<1>2. CASE (\A m \in Logins : ~HoldsPort(m)) /\ Goto(l, "wait")
  <2>1. /\ pc' \in [Logins -> LoginPc] /\ pc'[l] = "wait"
        /\ \A m \in Logins \ {l} : pc'[m] = pc[m]
    BY <1>2 DEF Goto, LoginInv, TypeOK, LoginPc
  <2>2. UNCHANGED <<file, writer, arrived, handlers, buffer, envKeys, proxy, request, overtaken>>
    BY DEF Listen, Channels, proxyVars
  <2>3. TypeOK' /\ HandlersInv'
    BY <2>1, <2>2 DEF LoginInv, TypeOK, HandlersInv
  <2>4. PortInv'
    BY <1>2, <2>1 DEF PortInv, HoldsPort
  <2>5. WriterInv' /\ SavedIsWhole' /\ RoutedInv'
    BY <2>1, <2>2 DEF LoginInv, TypeOK, WriterInv, SavedIsWhole, RoutedInv
  <2> QED  BY <2>3, <2>4, <2>5 DEF LoginInv
<1> QED  BY <1>1, <1>2 DEF Listen

(* What the handlers do leaves everything else alone.                      *)
LEMMA ChannelInv ==
    ASSUME LoginInv, UNCHANGED <<file, writer, pc, proxyVars, overtaken>>,
           arrived' \in [Logins -> 0..MaxCallbacks],
           handlers' \in [Logins -> [Kinds -> Nat]],
           buffer' \in [Logins -> [Kinds -> 0..1]],
           HandlersInv'
    PROVE  LoginInv'
<1>1. handlers' \in [Logins -> [Kinds -> 0..MaxCallbacks]]
  <2>1. ASSUME NEW l \in Logins, NEW k \in Kinds PROVE handlers'[l][k] \in 0..MaxCallbacks
    <3>1. /\ handlers'[l]["code"] \in Nat /\ handlers'[l]["err"] \in Nat
          /\ arrived'[l] \in 0..MaxCallbacks
          /\ handlers'[l]["code"] + handlers'[l]["err"] <= arrived'[l]
      BY DEF Kinds, HandlersInv
    <3> QED  BY <3>1, LoginAssumption DEF Kinds
  <2>2. \A l \in Logins : handlers'[l] \in [Kinds -> 0..MaxCallbacks]
    BY <2>1
  <2> QED  BY <2>2
<1>2. TypeOK'
  BY <1>1 DEF LoginInv, TypeOK, proxyVars
<1> QED  BY <1>2 DEF LoginInv, PortInv, HoldsPort, WriterInv, SavedIsWhole, RoutedInv, proxyVars

LEMMA CallbackInv ==
    ASSUME LoginInv, NEW l \in Logins, NEW k \in Kinds, Callback(l, k)
    PROVE  LoginInv'
<1>1. /\ arrived' = [arrived EXCEPT ![l] = @ + 1]
      /\ handlers' = [handlers EXCEPT ![l][k] = @ + 1]
      /\ arrived[l] < MaxCallbacks
      /\ UNCHANGED <<file, writer, pc, buffer, proxyVars, overtaken>>
  BY DEF Callback
<1>2. arrived' \in [Logins -> 0..MaxCallbacks]
  BY <1>1, LoginAssumption DEF LoginInv, TypeOK
<1>3. handlers' \in [Logins -> [Kinds -> Nat]]
  <2>1. [handlers[l] EXCEPT ![k] = @ + 1] \in [Kinds -> Nat]
    BY LoginAssumption DEF LoginInv, TypeOK
  <2> QED  BY <1>1, <2>1 DEF LoginInv, TypeOK
<1>4. HandlersInv'
  BY <1>1, LoginAssumption DEF LoginInv, TypeOK, HandlersInv, Kinds
<1> QED  BY <1>1, <1>2, <1>3, <1>4, ChannelInv DEF LoginInv, TypeOK

LEMMA HandlerSendsInv ==
    ASSUME LoginInv, NEW l \in Logins, NEW k \in Kinds, HandlerSends(l, k)
    PROVE  LoginInv'
<1>1. /\ handlers[l][k] > 0 /\ buffer[l][k] < 1
      /\ handlers' = [handlers EXCEPT ![l][k] = @ - 1]
      /\ buffer' = [buffer EXCEPT ![l][k] = @ + 1]
      /\ UNCHANGED <<file, writer, pc, arrived, proxyVars, overtaken>>
  BY DEF HandlerSends, HasRoom
<1>2. handlers' \in [Logins -> [Kinds -> Nat]]
  <2>1. [handlers[l] EXCEPT ![k] = @ - 1] \in [Kinds -> Nat]
    BY <1>1, LoginAssumption DEF LoginInv, TypeOK
  <2> QED  BY <1>1, <2>1 DEF LoginInv, TypeOK
<1>3. buffer' \in [Logins -> [Kinds -> 0..1]]
  <2>1. [buffer[l] EXCEPT ![k] = @ + 1] \in [Kinds -> 0..1]
    BY <1>1 DEF LoginInv, TypeOK
  <2> QED  BY <1>1, <2>1 DEF LoginInv, TypeOK
<1>4. HandlersInv'
  BY <1>1, LoginAssumption DEF LoginInv, TypeOK, HandlersInv, Kinds
<1> QED  BY <1>1, <1>2, <1>3, <1>4, ChannelInv DEF LoginInv, TypeOK

LEMMA ReceiveInv ==
    ASSUME LoginInv, NEW l \in Logins, NEW k \in Kinds, Receive(l, k)
    PROVE  LoginInv'
<1>1. /\ pc[l] = "wait" /\ buffer[l][k] > 0
      /\ buffer' = [buffer EXCEPT ![l][k] = @ - 1]
      /\ UNCHANGED <<file, writer, arrived, handlers, proxyVars, overtaken>>
  BY DEF Receive
<1>2. PICK next \in {"exchange", "failed"} : Goto(l, next)
  BY DEF Receive
<1>3. buffer' \in [Logins -> [Kinds -> 0..1]]
  <2>1. [buffer[l] EXCEPT ![k] = @ - 1] \in [Kinds -> 0..1]
    BY <1>1 DEF LoginInv, TypeOK
  <2> QED  BY <1>1, <2>1 DEF LoginInv, TypeOK
<1>4. HandlersInv'
  BY <1>1 DEF LoginInv, HandlersInv
<1>5. next \in LoginPc /\ HoldsPort(l)
  BY <1>1 DEF LoginPc, HoldsPort
<1> QED  BY <1>1, <1>2, <1>3, <1>4, <1>5, MoveInv DEF LoginInv, TypeOK

(* A login that opens the file has the port: nobody else is writing.       *)
LEMMA OpenInv ==
    ASSUME LoginInv, NEW l \in Logins, OpenFile(l)
    PROVE  LoginInv'
<1>1. pc[l] = "open" /\ UNCHANGED <<Channels, proxyVars>>
  BY DEF OpenFile
<1>2. CASE UNCHANGED <<file, writer, overtaken>> /\ Goto(l, "failed")
  <2>1. "failed" \in LoginPc
    BY DEF LoginPc
  <2> QED  BY <1>1, <1>2, <2>1, PhaseInv
<1>3. CASE file' = "torn" /\ writer' = l /\ Overtake /\ Goto(l, "write")
  <2>1. /\ pc' \in [Logins -> LoginPc] /\ pc'[l] = "write"
        /\ \A m \in Logins \ {l} : pc'[m] = pc[m]
    BY <1>3 DEF Goto, LoginInv, TypeOK, LoginPc
  <2>2. TypeOK' /\ HandlersInv'
    BY <1>1, <1>3, <2>1 DEF LoginInv, TypeOK, HandlersInv, Files, Overtake, Channels, proxyVars
  <2>3. \A m \in Logins : HoldsPort(m)' => HoldsPort(m)
    BY <1>1, <2>1 DEF HoldsPort
  <2>4. PortInv'
    BY <2>3 DEF LoginInv, PortInv
  <2>5. \A m \in Logins \ {l} : pc'[m] # "write"
    BY <1>1, <2>1 DEF LoginInv, PortInv, HoldsPort
  <2>6. WriterInv' /\ SavedIsWhole'
    BY <1>3, <2>1, <2>5, LoginAssumption DEF WriterInv, SavedIsWhole
  <2>7. RoutedInv'
    BY <1>1, <1>3 DEF RoutedInv, Overtake, proxyVars
  <2> QED  BY <2>2, <2>4, <2>6, <2>7 DEF LoginInv
<1> QED  BY <1>2, <1>3 DEF OpenFile

(* What it writes is in a file nobody else has touched, or in none.        *)
LEMMA WriteInv ==
    ASSUME LoginInv, NEW l \in Logins, WriteFile(l)
    PROVE  LoginInv'
<1>1. /\ pc[l] = "write" /\ UNCHANGED <<Channels, proxyVars, overtaken>>
      /\ writer = NoLogin \/ (writer = l /\ file = "torn")
  BY DEF WriteFile, LoginInv, WriterInv
<1>2. PICK next \in {"saved", "failed"} :
         /\ Goto(l, next)
         /\ \/ file' \in Written(l)
            \/ writer # NoLogin /\ file' = "torn" /\ next = "failed"
  BY DEF WriteFile
<1>3. /\ pc' \in [Logins -> LoginPc] /\ pc'[l] = next
      /\ \A m \in Logins \ {l} : pc'[m] = pc[m]
  BY <1>2 DEF Goto, LoginInv, TypeOK, LoginPc
<1>4. writer' = writer
  BY <1>1 DEF WriteFile
<1>5. \/ writer = NoLogin /\ file' = file
      \/ writer = l /\ file = "torn" /\ file' \in {"whole", "tokenless"}
      \/ writer = l /\ file' = "torn" /\ next = "failed"
  BY <1>1, <1>2, LoginAssumption DEF Written
<1>6. TypeOK' /\ HandlersInv'
  BY <1>1, <1>3, <1>4, <1>5 DEF LoginInv, TypeOK, HandlersInv, Files, Channels, proxyVars
<1>7. \A m \in Logins : HoldsPort(m)' => HoldsPort(m) /\ m # l
  BY <1>3 DEF HoldsPort
<1>8. PortInv'
  BY <1>7 DEF LoginInv, PortInv
<1>9. WriterInv'
  <2>1. HoldsPort(l)
    BY <1>1 DEF HoldsPort
  <2>2. \A m \in Logins : pc'[m] # "write"
    BY <1>3, <2>1 DEF LoginInv, PortInv, HoldsPort
  <2> QED  BY <2>2 DEF WriterInv
<1>10. SavedIsWhole'
  BY <1>3, <1>4, <1>5, LoginAssumption DEF LoginInv, SavedIsWhole
<1>11. RoutedInv'
  <2>1. envKeys' = envKeys /\ request' = request /\ overtaken' = overtaken
    BY <1>1 DEF proxyVars
  <2>2. file = "whole" => file' = "whole"
    BY <1>1, <1>5, LoginAssumption
  <2> QED  BY <2>1, <2>2 DEF LoginInv, RoutedInv
<1> QED  BY <1>6, <1>8, <1>9, <1>10, <1>11 DEF LoginInv

LEMMA QuitInv ==
    ASSUME LoginInv, NEW l \in Logins, ServerStops(l) \/ Kill(l)
    PROVE  LoginInv'
<1>1. PICK end \in {"ended", "reported"} :
         Quit(l, end) /\ (end = "reported" => pc[l] = "saved")
  BY DEF ServerStops, Kill
<1>2. /\ Goto(l, end)
      /\ arrived' = [arrived EXCEPT ![l] = 0]
      /\ handlers' = [handlers EXCEPT ![l] = Zero]
      /\ buffer' = [buffer EXCEPT ![l] = Zero]
      /\ UNCHANGED <<file, writer, proxyVars, overtaken>>
  BY <1>1 DEF Quit
<1>3. Zero \in [Kinds -> 0..MaxCallbacks] /\ Zero \in [Kinds -> 0..1]
  BY LoginAssumption DEF Zero
<1>4. /\ arrived' \in [Logins -> 0..MaxCallbacks]
      /\ handlers' \in [Logins -> [Kinds -> 0..MaxCallbacks]]
      /\ buffer' \in [Logins -> [Kinds -> 0..1]]
  BY <1>2, <1>3, LoginAssumption DEF LoginInv, TypeOK
<1>5. HandlersInv'
  BY <1>2 DEF LoginInv, TypeOK, HandlersInv, Zero, Kinds
<1>6. end \in LoginPc
  BY DEF LoginPc
<1> QED  BY <1>1, <1>2, <1>4, <1>5, <1>6, MoveInv

(* A file without a writer is no torn one.                                 *)
LEMMA RemoveInv ==
    ASSUME LoginInv, Remove
    PROVE  LoginInv'
<1>1. TypeOK' /\ HandlersInv' /\ PortInv'
  BY DEF Remove, Overtake, LoginInv, TypeOK, Files, HandlersInv, PortInv, HoldsPort, Channels,
         proxyVars
<1>2. WriterInv' /\ SavedIsWhole' /\ RoutedInv'
  BY DEF Remove, Overtake, WriterInv, SavedIsWhole, RoutedInv, proxyVars
<1> QED  BY <1>1, <1>2 DEF LoginInv

LEMMA ProxyInv ==
    ASSUME LoginInv, Proxy
    PROVE  LoginInv'
<1>1. UNCHANGED <<file, writer, pc, arrived, handlers, buffer, envKeys>>
  BY DEF Proxy, StartProxy, RouteLLM, CallAnthropic, Answer, Channels
<1>2. HandlersInv' /\ PortInv' /\ WriterInv' /\ SavedIsWhole'
  BY <1>1 DEF LoginInv, HandlersInv, PortInv, HoldsPort, WriterInv, SavedIsWhole
<1>3. CASE StartProxy
  BY <1>1, <1>2, <1>3 DEF StartProxy, LoginInv, TypeOK, RoutedInv
<1>4. ASSUME NEW r \in Requests, RouteLLM(r) PROVE LoginInv'
  <2>1. PICK key \in GetClaudeKey :
           request' = [request EXCEPT ![r] = IF IsKey(key) THEN "routed" ELSE "refused"]
    BY <1>4 DEF RouteLLM
  <2>2. overtaken' = overtaken /\ proxy' = proxy
    BY <1>4 DEF RouteLLM
  <2>3. TypeOK'
    BY <1>1, <2>1, <2>2 DEF LoginInv, TypeOK, RequestPc
  <2>4. IsKey(key) => "claude" \in envKeys \/ file = "whole"
    BY DEF GetClaudeKey, LoadToken, IsKey
  <2>5. RoutedInv'
    BY <1>1, <2>1, <2>2, <2>4 DEF LoginInv, TypeOK, RoutedInv
  <2> QED  BY <1>2, <2>3, <2>5 DEF LoginInv
<1>5. ASSUME NEW r \in Requests, CallAnthropic(r) PROVE LoginInv'
  <2>1. PICK key \in GetClaudeKey :
           request' = [request EXCEPT ![r] = CASE IsKey(key) -> "sent"
                                               [] key = "none" -> "keyless"
                                               [] key = "failed" -> "unread"]
    BY <1>5 DEF CallAnthropic
  <2>2. overtaken' = overtaken \ {r} /\ proxy' = proxy
    BY <1>5 DEF CallAnthropic
  <2>3. key \in {"env", "token", "none", "failed"}
    BY DEF GetClaudeKey, LoadToken
  <2>4. PICK end \in {"sent", "keyless", "unread"} : request' = [request EXCEPT ![r] = end]
    BY <2>1, <2>3 DEF IsKey
  <2>5. TypeOK'
    BY <1>1, <2>2, <2>4 DEF LoginInv, TypeOK, RequestPc
  <2>6. RoutedInv'
    BY <1>1, <2>2, <2>4 DEF LoginInv, TypeOK, RoutedInv
  <2> QED  BY <1>2, <2>5, <2>6 DEF LoginInv
<1>6. ASSUME NEW r \in Requests, Answer(r) PROVE LoginInv'
  <2>1. TypeOK' /\ RoutedInv'
    BY <1>1, <1>6 DEF Answer, LoginInv, TypeOK, RequestPc, RoutedInv
  <2> QED  BY <1>2, <2>1 DEF LoginInv
<1> QED  BY <1>3, <1>4, <1>5, <1>6 DEF Proxy

LEMMA StepInv == LoginInv /\ [Next]_vars => LoginInv'
<1> SUFFICES ASSUME LoginInv, [Next]_vars PROVE LoginInv'
  OBVIOUS
<1>1. ASSUME NEW l \in Logins, Setup(l) PROVE LoginInv'
  <2>1. PICK next \in {"prompt", "listen"} : Goto(l, next)
    BY <1>1 DEF Setup, LoadToken
  <2>2. next \in LoginPc
    BY DEF LoginPc
  <2> QED  BY <1>1, <2>1, <2>2, PhaseInv DEF Setup
<1>2. ASSUME NEW l \in Logins, Prompt(l) PROVE LoginInv'
  <2>1. PICK next \in {"listen", "ended"} : Goto(l, next)
    BY <1>2 DEF Prompt
  <2>2. next \in LoginPc
    BY DEF LoginPc
  <2> QED  BY <1>2, <2>1, <2>2, PhaseInv DEF Prompt
<1>3. ASSUME NEW l \in Logins, TimeOut(l) \/ Exchange(l) PROVE LoginInv'
  <2>1. PICK next \in {"open", "failed"} : Goto(l, next)
    BY <1>3 DEF TimeOut, Exchange
  <2>2. next \in LoginPc /\ HoldsPort(l)
    BY <1>3 DEF LoginPc, HoldsPort, TimeOut, Exchange
  <2> QED  BY <1>3, <2>1, <2>2, PhaseInv DEF TimeOut, Exchange
<1>4. CASE UNCHANGED vars
  BY <1>4 DEF vars, Channels, proxyVars, LoginInv, TypeOK, HandlersInv, PortInv, HoldsPort,
              WriterInv, SavedIsWhole, RoutedInv
<1> QED
  BY <1>1, <1>2, <1>3, <1>4, ListenInv, CallbackInv, HandlerSendsInv, ReceiveInv, OpenInv,
     WriteInv, QuitInv, RemoveInv, ProxyInv
     DEF Next, Login

(* The strengthened invariant.                                             *)
THEOREM Invariance == Spec => []LoginInv
<1>1. Init => LoginInv
  BY InitInv
<1>2. LoginInv /\ [Next]_vars => LoginInv'
  BY StepInv
<1> QED  BY <1>1, <1>2, PTL DEF Spec

(* Every variable keeps its type; no channel holds more than it can.       *)
THEOREM TypeCorrect == Spec => []TypeOK
<1>1. LoginInv => TypeOK
  BY DEF LoginInv
<1> QED  BY <1>1, Invariance, PTL

(* A login that reports its token as saved left no torn file: the port     *)
(* keeps the writes of two logins apart.                                   *)
THEOREM SavesAreWhole == Spec => []SavedIsWhole
<1>1. LoginInv => SavedIsWhole
  BY DEF LoginInv
<1> QED  BY <1>1, Invariance, PTL

(* The proxy sends a request without a key, unless a read that failed by   *)
(* itself is the reason, only if the file was truncated or removed after   *)
(* the request was routed.                                                 *)
THEOREM KeylessRequests == Spec => KeylessOnlyIfOvertaken
<1>1. LoginInv /\ [Next]_vars =>
         [\A r \in Requests :
             request[r] # "keyless" /\ request'[r] = "keyless" => r \in overtaken]_vars
  <2> SUFFICES ASSUME LoginInv, Next, NEW r \in Requests,
                      request[r] # "keyless", request'[r] = "keyless"
               PROVE  r \in overtaken
    OBVIOUS
  <2>1. request' # request
    OBVIOUS
  <2>2. PICK q \in Requests : RouteLLM(q) \/ CallAnthropic(q) \/ Answer(q)
    BY <2>1 DEF Next, Login, Proxy, Setup, Prompt, Listen, TimeOut, Exchange, OpenFile,
                WriteFile, Callback, HandlerSends, Receive, ServerStops, Kill, Quit, Remove,
                StartProxy, proxyVars
  <2>3. CallAnthropic(r)
    BY <2>2 DEF RouteLLM, CallAnthropic, Answer, LoginInv, TypeOK
  <2>4. request[r] = "routed" /\ "none" \in GetClaudeKey
    BY <2>3 DEF CallAnthropic, GetClaudeKey, LoadToken, IsKey, LoginInv, TypeOK
  <2>5. "claude" \notin envKeys /\ file # "whole"
    BY <2>4 DEF GetClaudeKey, LoadToken
  <2> QED  BY <2>4, <2>5 DEF LoginInv, RoutedInv
<1> QED  BY <1>1, Invariance, PTL DEF Spec, KeylessOnlyIfOvertaken
=============================================================================
