---------------------------- MODULE FrontsProofs ----------------------------
(***************************************************************************)
(* A client may rely on AgentCall through every front, for any requests    *)
(* and any number of lines, whenever a front gives up and the controller   *)
(* answers.                                                                *)
(***************************************************************************)
EXTENDS ClientFronts, Naturals, TLAPS

FrontTypeOK ==
  /\ ask \in [Requests -> [front : Lines, form : LineForms, id : BOOLEAN]
                            \cup ClientCalls \cup {Unsent}]
  /\ lines \in [Fronts -> Seq(Requests)]
  /\ hand \in [Fronts -> Requests \cup {Nothing}]
  /\ posted \subseteq Requests
  /\ phase \in [Requests -> {"new", "open", "closed"}]
  /\ runs \in [Requests -> {0, 1}]
  /\ reply \in [Requests -> Tool!Answers \cup {"none"}]
  /\ seen \in [Requests -> Seq(Tool!Answers)]

(***************************************************************************)
(* A request goes from the line it was written on to the hand of its front *)
(* and is then posted, and is answered when it leaves either: so once at   *)
(* most.  What a client is told is inconclusive, or what the controller    *)
(* has replied for good, or a refusal of a request that was never posted.  *)
(***************************************************************************)
InTurn ==
  /\ \A f \in Fronts : \A i \in DOMAIN lines[f] :
       /\ ask[lines[f][i]].front = f
       /\ lines[f][i] \notin posted /\ seen[lines[f][i]] = <<>>
       /\ \A j \in DOMAIN lines[f] : lines[f][i] = lines[f][j] => i = j
  /\ \A f \in Fronts : hand[f] # Nothing =>
       ask[hand[f]].front = f /\ hand[f] \in posted /\ seen[hand[f]] = <<>>
  /\ \A r \in Requests : ask[r] = Unsent => r \notin posted /\ seen[r] = <<>>
  /\ \A r \in posted : IsCall(r)
Operated ==
  \A r \in Requests :
    /\ r \notin posted => phase[r] = "new"
    /\ phase[r] = "new" => runs[r] = 0
    /\ reply[r] # "none" <=> phase[r] = "closed"
    /\ reply[r] = "refused" => runs[r] = 0
    /\ reply[r] = "result" => runs[r] = 1
Told(r) ==
  LET a == seen[r][1] IN
  \/ a \in Tool!Inconclusive
  \/ r \in posted /\ phase[r] = "closed" /\ reply[r] = a
  \/ r \notin posted /\ a = "refused"
Honest ==
  \A r \in Requests : Len(seen[r]) <= 1 /\ (IsCall(r) /\ seen[r] # <<>> => Told(r))

FrontInv == FrontTypeOK /\ InTurn /\ Operated /\ Honest

-----------------------------------------------------------------------------
(* What a client sees of a request, in one place.                          *)

LEMMA FrontNames ==
  /\ Fronts = {"proxy", "stdio", "client"} /\ Unsent.front = "none" /\ Unsent.form = "none"
  /\ Tool!Answers = {"refused", "result", "error", "timeout", "raised"}
  /\ Tool!Inconclusive = {"error", "timeout", "raised"}
  /\ Host!Answers = Tool!Answers /\ Host!Inconclusive = Tool!Inconclusive
BY DEF Fronts, Lines, Unsent, Message, Tool!Answers, Tool!Inconclusive, Host!Answers,
       Host!Inconclusive

\* What the client library sends is a call.
LEMMA LibraryForms ==
  \A m \in ClientCalls :
    m.front = "client" /\ m.form \notin {"none", "query", "initialized", "badjson"}
BY DEF ClientCalls, StateCall, ControlCall, ToolCall, ConvenienceCall, MessageCall, Message

\* The front of a message is a front, and the library's messages are calls.
LEMMA SentForms ==
  ASSUME FrontTypeOK, NEW r \in Requests
  PROVE  /\ Unsent \notin Asks[r]
         /\ \A m \in Asks[r] : /\ m.front \in Fronts
                               /\ m.front = "client" =>
                                    m.form \notin {"none", "query", "initialized", "badjson"}
<1>1. \A m \in [front : Lines, form : LineForms, id : BOOLEAN] :
        m.front \in {"proxy", "stdio"} /\ m.form # "none"
  BY DEF Lines, LineForms
<1>2. Asks[r] \subseteq [front : Lines, form : LineForms, id : BOOLEAN] \cup ClientCalls
  BY FrontsAssumption
<1>3. QED
  BY <1>1, <1>2, FrontNames, LibraryForms

\* A step that is about one request leaves the others as they are seen.
LEMMA OneRequest ==
  ASSUME NEW r \in Requests,
         \A q \in Requests \ {r} : ask'[q] = ask[q] /\ seen'[q] = seen[q]
  PROVE  /\ HostPhase' = [HostPhase EXCEPT ![r] = HostPhase'[r]]
         /\ HostReply' = [HostReply EXCEPT ![r] = HostReply'[r]]
<1>1. \A q \in Requests \ {r} : IsCall(q)' = IsCall(q)
  BY DEF IsCall
<1>2. \A q \in Requests \ {r} : HostPhase'[q] = HostPhase[q] /\ HostReply'[q] = HostReply[q]
  <2>1. SUFFICES ASSUME NEW q \in Requests \ {r}
                 PROVE  HostPhase'[q] = HostPhase[q] /\ HostReply'[q] = HostReply[q]
    OBVIOUS
  <2>2. ask'[q] = ask[q] /\ seen'[q] = seen[q]
    OBVIOUS
  <2>3. HostPhase'[q] = HostPhase[q]
    <3>1. q \in Requests /\ IsCall(q)' = IsCall(q)
      BY <2>2 DEF IsCall
    <3>2. CASE IsCall(q)
      <4>1. CASE seen[q] = <<>>
        <5>1. HostPhase[q] = "open"
          BY <3>1, <3>2, <4>1 DEF HostPhase
        <5>2. IsCall(q)' /\ seen'[q] = <<>>
          BY <2>2, <3>1, <3>2, <4>1
        <5>3. HostPhase'[q] = "open"
          BY <3>1, <5>2 DEF HostPhase
        <5>4. QED
          BY <5>1, <5>3
      <4>2. CASE seen[q] # <<>> /\ Len(seen[q]) = 1
        BY <2>2, <3>1, <3>2, <4>2 DEF HostPhase
      <4>3. CASE seen[q] # <<>> /\ Len(seen[q]) # 1
        BY <2>2, <3>1, <3>2, <4>3 DEF HostPhase
      <4>4. QED
        BY <4>1, <4>2, <4>3
    <3>3. CASE ~IsCall(q)
      BY <2>2, <3>1, <3>3 DEF HostPhase
    <3>4. QED
      BY <3>2, <3>3
  <2>4. HostReply'[q] = HostReply[q]
    BY <2>2 DEF HostReply, IsCall
  <2>5. QED
    BY <2>3, <2>4
<1>3. /\ HostPhase' = [q \in Requests |-> HostPhase'[q]]
      /\ HostReply' = [q \in Requests |-> HostReply'[q]]
  BY DEF HostPhase, HostReply
<1>4. DOMAIN HostPhase = Requests /\ DOMAIN HostReply = Requests
  BY DEF HostPhase, HostReply
<1> QED
  BY <1>2, <1>3, <1>4

LEMMA Unseen ==
  ASSUME NEW r \in Requests
  PROVE  /\ ~IsCall(r) => HostPhase[r] = "new" /\ HostReply[r] = "none"
         /\ IsCall(r) /\ seen[r] = <<>> => HostPhase[r] = "open" /\ HostReply[r] = "none"
         /\ IsCall(r) /\ seen[r] # <<>> /\ Len(seen[r]) = 1 =>
              HostPhase[r] = "closed" /\ HostReply[r] = Head(seen[r])
BY DEF HostPhase, HostReply

\* The first answer to a request closes it, if it is a call.
LEMMA FirstAnswer ==
  ASSUME FrontTypeOK, NEW r \in Requests, NEW a \in Tool!Answers, seen[r] = <<>>,
         seen' = seen \/ seen' = [seen EXCEPT ![r] = Append(seen[r], a)],
         UNCHANGED <<ask, runs>>,
         IsCall(r) => \/ a \in Tool!Inconclusive
                      \/ a = "refused" /\ runs[r] = 0
                      \/ a = "result" /\ runs[r] = 1
  PROVE  Host!Close(r, a) \/ UNCHANGED <<HostPhase, runs, HostReply>>
<1>1. CASE seen' = seen
  BY <1>1 DEF HostPhase, HostReply, IsCall
<1>2. CASE seen' = [seen EXCEPT ![r] = Append(seen[r], a)]
  <2>1. /\ seen'[r] = Append(<<>>, a) /\ \A q \in Requests \ {r} : seen'[q] = seen[q]
        /\ IsCall(r)' = IsCall(r)
    BY <1>2 DEF FrontTypeOK, IsCall
  <2>2. seen'[r] # <<>> /\ Len(seen'[r]) = 1 /\ Head(seen'[r]) = a
    BY <2>1
  <2>3. /\ HostPhase' = [HostPhase EXCEPT ![r] = HostPhase'[r]]
        /\ HostReply' = [HostReply EXCEPT ![r] = HostReply'[r]]
    BY <2>1, OneRequest
  <2>4. CASE IsCall(r)
    <3>1. HostPhase'[r] = "closed" /\ HostReply'[r] = a
      BY <2>1, <2>2, <2>4 DEF HostPhase, HostReply
    <3>2. HostPhase[r] = "open"
      BY <2>4, Unseen
    <3>3. QED
      BY <2>3, <2>4, <3>1, <3>2, FrontNames DEF Host!Close
  <2>5. CASE ~IsCall(r)
    <3>1. HostPhase'[r] = HostPhase[r] /\ HostReply'[r] = HostReply[r]
      BY <2>1, <2>5 DEF HostPhase, HostReply
    <3>2. /\ HostPhase = [q \in Requests |-> HostPhase[q]]
          /\ HostReply = [q \in Requests |-> HostReply[q]]
      BY DEF HostPhase, HostReply
    <3>3. QED
      BY <2>3, <3>1, <3>2
  <2>6. QED
    BY <2>4, <2>5
<1>3. QED
  BY <1>1, <1>2

LEMMA InitInv == Init => FrontInv /\ Host!Init
<1> SUFFICES ASSUME Init
             PROVE  FrontInv /\ Host!Init
  OBVIOUS
<1>1. FrontTypeOK
  BY DEF Init, Tool!Init, FrontTypeOK
<1>2. InTurn
  BY DEF Init, InTurn
<1>3. Operated
  BY DEF Init, Tool!Init, Operated
<1>4. Honest
  <2>1. \A r \in Requests : seen[r] = <<>> /\ Len(seen[r]) = 0
    BY DEF Init
  <2>2. QED
    <3>1. SUFFICES ASSUME NEW r \in Requests
                   PROVE  Len(seen[r]) <= 1 /\ (IsCall(r) /\ seen[r] # <<>> => Told(r))
      BY DEF Honest
    <3>2. Len(seen[r]) <= 1
      BY <2>1
    <3>3. ~(IsCall(r) /\ seen[r] # <<>>)
      BY <2>1
    <3>4. QED
      BY <3>2, <3>3
<1>5. Host!Init
  BY FrontNames DEF Init, Tool!Init, Host!Init, HostPhase, HostReply, IsCall
<1>6. QED
  BY <1>1, <1>2, <1>3, <1>4, <1>5 DEF FrontInv

-----------------------------------------------------------------------------
(* The client writes.                                                      *)

LEMMA WriteInv ==
  ASSUME FrontInv, NEW r \in Requests, NEW m \in Asks[r], Write(r, m)
  PROVE  FrontInv' /\ (Host!Open(r) \/ UNCHANGED <<HostPhase, runs, HostReply>>)
<1> DEFINE f == m.front
<1>1. /\ ask[r] = Unsent /\ ask' = [ask EXCEPT ![r] = m]
      /\ lines' = [lines EXCEPT ![f] = Append(lines[f], r)]
      /\ UNCHANGED <<hand, posted, phase, runs, reply, seen>>
  BY DEF Write, toolVars
<1>2. FrontTypeOK /\ InTurn /\ Operated /\ Honest
  BY DEF FrontInv
<1>3. f \in Fronts /\ m # Unsent
  BY <1>2, SentForms
<1> HIDE DEF f
<1>4. r \notin posted /\ seen[r] = <<>>
  BY <1>1, <1>2 DEF InTurn
\* It was on no line before.
<1>5. \A g \in Fronts : /\ \A i \in DOMAIN lines[g] : lines[g][i] \in Requests /\ lines[g][i] # r
                        /\ hand[g] # r
  <2>1. \A g \in Fronts : g # ask[r].front
    BY <1>1, FrontNames
  <2>2. \A g \in Fronts : lines[g] \in Seq(Requests)
    BY <1>2 DEF FrontTypeOK
  <2>3. \A g \in Fronts : \A i \in DOMAIN lines[g] : lines[g][i] \in Requests
    BY <2>2
  <2>4. QED
    BY <1>2, <2>1, <2>3, FrontsAssumption DEF InTurn
<1>6. /\ ask'[r] = m /\ \A q \in Requests \ {r} : ask'[q] = ask[q]
      /\ lines'[f] = Append(lines[f], r) /\ \A g \in Fronts \ {f} : lines'[g] = lines[g]
  BY <1>1, <1>2, <1>3 DEF FrontTypeOK
<1>7. /\ lines'[f] \in Seq(Requests) /\ DOMAIN lines'[f] = DOMAIN lines[f] \cup {Len(lines[f]) + 1}
      /\ lines'[f][Len(lines[f]) + 1] = r
      /\ \A i \in DOMAIN lines[f] : lines'[f][i] = lines[f][i] /\ i # Len(lines[f]) + 1
  <2>1. lines[f] \in Seq(Requests)
    BY <1>2, <1>3 DEF FrontTypeOK
  <2>2. QED
    BY <1>6, <2>1
<1>8. FrontTypeOK'
  <2>1. lines' \in [Fronts -> Seq(Requests)]
    BY <1>1, <1>2, <1>3, <1>7 DEF FrontTypeOK
  <2>2. m \in [front : Lines, form : LineForms, id : BOOLEAN] \cup ClientCalls \cup {Unsent}
    BY FrontsAssumption
  <2>3. ask' \in [Requests -> [front : Lines, form : LineForms, id : BOOLEAN]
                                \cup ClientCalls \cup {Unsent}]
    BY <1>1, <1>2, <2>2 DEF FrontTypeOK
  <2>4. QED
    BY <1>1, <1>2, <2>1, <2>3 DEF FrontTypeOK
<1>9. InTurn'
  <2>1. ASSUME NEW g \in Fronts, NEW i \in DOMAIN lines'[g]
        PROVE  /\ ask'[lines'[g][i]].front = g
               /\ lines'[g][i] \notin posted /\ seen[lines'[g][i]] = <<>>
               /\ \A j \in DOMAIN lines'[g] : lines'[g][i] = lines'[g][j] => i = j
    <3>1. CASE g # f
      BY <1>2, <1>5, <1>6, <2>1, <3>1 DEF InTurn
    <3>2. CASE g = f /\ i \in DOMAIN lines[f]
      BY <1>2, <1>5, <1>6, <1>7, <2>1, <3>2 DEF InTurn
    <3>3. CASE g = f /\ i = Len(lines[f]) + 1
      BY <1>3, <1>4, <1>5, <1>6, <1>7, <2>1, <3>3 DEF f
    <3>4. QED
      BY <1>7, <2>1, <3>1, <3>2, <3>3
  <2>2. \A g \in Fronts : hand[g] # Nothing => hand[g] \in Requests \ {r}
    BY <1>2, <1>5 DEF FrontTypeOK
  <2>3. \A q \in posted : IsCall(q)'
    <3>1. ASSUME NEW q \in posted
          PROVE  ask'[q] = ask[q] /\ IsCall(q)
      BY <1>2, <1>4, <1>6 DEF InTurn, FrontTypeOK
    <3>2. QED
      BY <3>1 DEF IsCall
  <2>4. QED
    BY <1>1, <1>2, <1>3, <1>4, <1>6, <2>1, <2>2, <2>3 DEF InTurn
<1>10. Operated' /\ Honest'
  <2>1. \A q \in Requests \ {r} : IsCall(q)' = IsCall(q)
    BY <1>6 DEF IsCall
  <2>2. QED
    BY <1>1, <1>2, <1>4, <2>1 DEF Operated, Honest, Told
<1>11. Host!Open(r) \/ UNCHANGED <<HostPhase, runs, HostReply>>
  <2>1. ~IsCall(r)
    BY <1>1, FrontNames DEF IsCall
  <2>2. HostPhase[r] = "new" /\ HostReply[r] = "none"
    BY <2>1, Unseen
  <2>3. HostPhase'[r] \in {"new", "open"} /\ HostReply'[r] = "none"
    BY <1>1, <1>4 DEF HostPhase, HostReply
  <2>4. /\ HostPhase' = [HostPhase EXCEPT ![r] = HostPhase'[r]]
        /\ HostReply' = [HostReply EXCEPT ![r] = HostReply'[r]]
    BY <1>1, <1>6, OneRequest
  <2>5. /\ HostPhase = [q \in Requests |-> HostPhase[q]]
        /\ HostReply = [q \in Requests |-> HostReply[q]]
    BY DEF HostPhase, HostReply
  <2>6. HostReply' = HostReply /\ runs' = runs
    BY <1>1, <2>2, <2>3, <2>4, <2>5
  <2>7. CASE HostPhase'[r] = "new"
    BY <2>2, <2>4, <2>5, <2>6, <2>7
  <2>8. CASE HostPhase'[r] = "open"
    BY <2>2, <2>4, <2>6, <2>8 DEF Host!Open
  <2>9. QED
    BY <2>3, <2>7, <2>8
<1>12. QED
  BY <1>8, <1>9, <1>10, <1>11 DEF FrontInv

-----------------------------------------------------------------------------
(* The fronts.                                                             *)

\* What an answer, or none, adds to what the clients have seen.
Shows(r, a) == seen' = seen \/ seen' = [seen EXCEPT ![r] = Append(seen[r], a)]

LEMMA ShowsType ==
  ASSUME FrontTypeOK, NEW r \in Requests, NEW a \in Tool!Answers, Shows(r, a), seen[r] = <<>>
  PROVE  /\ seen' \in [Requests -> Seq(Tool!Answers)]
         /\ \A q \in Requests \ {r} : seen'[q] = seen[q]
         /\ seen'[r] = <<>> \/ (seen'[r] = <<a>> /\ seen'[r] # <<>> /\ seen'[r][1] = a)
         /\ Len(seen'[r]) <= 1
<1>1. Append(<<>>, a) = <<a>> /\ Append(seen[r], a) \in Seq(Tool!Answers)
  BY DEF FrontTypeOK
<1>2. <<a>> # <<>> /\ <<a>>[1] = a /\ Len(<<a>>) = 1 /\ Len(<<>>) = 0
  OBVIOUS
<1>3. /\ seen' \in [Requests -> Seq(Tool!Answers)]
      /\ \A q \in Requests \ {r} : seen'[q] = seen[q]
      /\ seen'[r] = <<>> \/ seen'[r] = <<a>>
  BY <1>1 DEF FrontTypeOK, Shows
<1>4. Len(seen'[r]) <= 1
  <2>1. CASE seen'[r] = <<>>
    BY <1>2, <2>1
  <2>2. CASE seen'[r] = <<a>>
    BY <1>2, <2>2
  <2>3. QED
    BY <1>3, <2>1, <2>2
<1>5. QED
  BY <1>2, <1>3, <1>4

LEMMA AnswerShows ==
  ASSUME NEW r, NEW a, Answer(r, a)
  PROVE  Shows(r, a)
BY DEF Answer, Shows

\* A front takes the first line and answers it, passes over it, or posts it.
LEMMA TakeInv ==
  ASSUME FrontInv, NEW f \in Fronts, TakeLine(f), NEW r, r = Head(lines[f]),
         UNCHANGED <<ask, phase, runs, reply>>,
         NEW a \in Tool!Inconclusive \cup {"refused", "result"}, Shows(r, a),
         \/ UNCHANGED <<hand, posted>>
         \/ /\ posted' = posted \cup {r} /\ hand' = [hand EXCEPT ![f] = r]
            /\ seen' = seen /\ IsCall(r),
         a = "result" => ~IsCall(r)
  PROVE  FrontInv' /\ (Host!Close(r, a) \/ UNCHANGED <<HostPhase, runs, HostReply>>)
<1>1. FrontTypeOK /\ InTurn /\ Operated /\ Honest
  BY DEF FrontInv
<1>2. hand[f] = Nothing /\ lines[f] # <<>> /\ lines' = [lines EXCEPT ![f] = Tail(lines[f])]
  BY DEF TakeLine
<1>3. a \in Tool!Answers /\ (IsCall(r) => a \in Tool!Inconclusive \/ a = "refused")
  BY FrontNames
<1>4. /\ r \in Requests /\ lines[f][1] = r /\ 1 \in DOMAIN lines[f]
      /\ lines'[f] \in Seq(Requests) /\ \A g \in Fronts \ {f} : lines'[g] = lines[g]
      /\ \A i \in DOMAIN lines'[f] :
           lines'[f][i] = lines[f][i + 1] /\ i + 1 \in DOMAIN lines[f] /\ i + 1 # 1 /\ i \in Nat
  <2>1. lines[f] \in Seq(Requests)
    BY <1>1 DEF FrontTypeOK
  <2>2. lines'[f] = Tail(lines[f]) /\ \A g \in Fronts \ {f} : lines'[g] = lines[g]
    BY <1>1, <1>2 DEF FrontTypeOK
  <2>3. Len(lines[f]) \in Nat /\ Len(lines[f]) >= 1 /\ DOMAIN lines[f] = 1 .. Len(lines[f])
    BY <1>2, <2>1
  <2>4. r = lines[f][1] /\ r \in Requests /\ 1 \in DOMAIN lines[f]
    BY <2>1, <2>3
  <2>5. Tail(lines[f]) \in Seq(Requests) /\ Len(Tail(lines[f])) = Len(lines[f]) - 1
    BY <1>2, <2>1
  <2>6. \A i \in 1 .. Len(lines[f]) - 1 : Tail(lines[f])[i] = lines[f][i + 1]
    BY <1>2, <2>1
  <2>7. DOMAIN lines'[f] = 1 .. Len(lines[f]) - 1
    BY <2>2, <2>5
  <2>8. \A i \in 1 .. Len(lines[f]) - 1 : i + 1 \in 1 .. Len(lines[f]) /\ i + 1 # 1 /\ i \in Nat
    BY <2>3
  <2>9. QED
    BY <2>2, <2>3, <2>4, <2>5, <2>6, <2>7, <2>8
<1>5. ask[r].front = f /\ r \notin posted /\ seen[r] = <<>>
  BY <1>1, <1>4 DEF InTurn
<1>6. /\ seen' \in [Requests -> Seq(Tool!Answers)]
      /\ \A q \in Requests \ {r} : seen'[q] = seen[q]
      /\ seen'[r] = <<>> \/ (seen'[r] = <<a>> /\ seen'[r] # <<>> /\ seen'[r][1] = a)
      /\ Len(seen'[r]) <= 1
  BY <1>1, <1>3, <1>4, <1>5, ShowsType
<1>7. FrontTypeOK'
  <2>1. lines' \in [Fronts -> Seq(Requests)]
    BY <1>1, <1>2, <1>4 DEF FrontTypeOK
  <2>2. hand' \in [Fronts -> Requests \cup {Nothing}] /\ posted' \subseteq Requests
    BY <1>1, <1>4 DEF FrontTypeOK
  <2>3. QED
    BY <1>1, <1>6, <2>1, <2>2 DEF FrontTypeOK
\* The other lines are behind this one, or another front's.
<1>8. ASSUME NEW g \in Fronts, NEW i \in DOMAIN lines'[g]
      PROVE  /\ lines'[g][i] \in Requests \ {r}
             /\ ask[lines'[g][i]].front = g
             /\ lines'[g][i] \notin posted /\ seen[lines'[g][i]] = <<>>
             /\ \A j \in DOMAIN lines'[g] : lines'[g][i] = lines'[g][j] => i = j
  <2>1. CASE g = f
    <3>1. lines'[g][i] \in Requests
      BY <1>4, <2>1
    <3>2. \A j \in DOMAIN lines'[g] : lines'[g][i] = lines'[g][j] => i = j
      <4>1. ASSUME NEW j \in DOMAIN lines'[g], lines'[g][i] = lines'[g][j]
            PROVE  i = j
        <5>1. i + 1 = j + 1
          BY <1>1, <1>4, <1>8, <2>1, <4>1 DEF InTurn
        <5>2. QED
          BY <1>4, <1>8, <2>1, <4>1, <5>1
      <4>2. QED
        BY <4>1
    <3>3. QED
      BY <1>1, <1>4, <1>8, <2>1, <3>1, <3>2 DEF InTurn
  <2>2. CASE g # f
    <3>1. lines[g] \in Seq(Requests) /\ lines'[g] = lines[g]
      BY <1>1, <1>4, <2>2 DEF FrontTypeOK
    <3>2. lines'[g][i] \in Requests
      BY <1>8, <3>1
    <3>3. QED
      BY <1>1, <1>5, <1>8, <2>2, <3>1, <3>2 DEF InTurn
  <2>3. QED
    BY <2>1, <2>2
<1>9. posted \subseteq posted' /\ posted' \subseteq posted \cup {r}
      /\ (r \in posted' => seen' = seen /\ IsCall(r))
  BY <1>5
<1>10. InTurn'
  <2>1. ASSUME NEW g \in Fronts, hand'[g] # Nothing
        PROVE  ask[hand'[g]].front = g /\ hand'[g] \in posted' /\ seen'[hand'[g]] = <<>>
    <3>1. CASE hand'[g] = hand[g]
      <4>1. hand[g] \in Requests /\ hand[g] \in posted /\ hand[g] # r
        BY <1>1, <1>5, <2>1, <3>1 DEF FrontTypeOK, InTurn
      <4>2. QED
        BY <1>1, <1>6, <1>9, <2>1, <3>1, <4>1 DEF InTurn
    <3>2. CASE hand'[g] # hand[g]
      <4>1. g = f /\ hand'[g] = r /\ r \in posted' /\ seen' = seen
        BY <1>1, <2>1, <3>2 DEF FrontTypeOK
      <4>2. QED
        BY <1>5, <4>1
    <3>3. QED
      BY <3>1, <3>2
  <2>2. \A q \in posted' : IsCall(q)'
    BY <1>1, <1>9 DEF InTurn, IsCall
  <2>3. \A q \in Requests : ask[q] = Unsent => q \notin posted' /\ seen'[q] = <<>>
    <3>1. ask[r] # Unsent
      BY <1>5, FrontNames
    <3>2. QED
      BY <1>1, <1>6, <1>9, <3>1 DEF InTurn
  <2>4. QED
    BY <1>6, <1>8, <1>9, <2>1, <2>2, <2>3 DEF InTurn
<1>11. Operated'
  BY <1>1, <1>9 DEF Operated
<1>12. Honest'
  <2>1. SUFFICES ASSUME NEW q \in Requests
                 PROVE  Len(seen'[q]) <= 1 /\ (IsCall(q)' /\ seen'[q] # <<>> => Told(q)')
    BY DEF Honest
  <2>2. IsCall(q)' = IsCall(q)
    BY DEF IsCall
  <2>3. CASE q = r
    <3>1. Len(seen'[q]) <= 1
      BY <1>6, <2>3
    <3>2. ASSUME IsCall(q)', seen'[q] # <<>>
          PROVE  Told(q)'
      <4>1. seen'[q][1] = a /\ IsCall(r) /\ r \notin posted'
        BY <1>5, <1>6, <1>9, <2>2, <2>3, <3>2
      <4>2. QED
        BY <1>3, <2>3, <4>1 DEF Told
    <3>3. QED
      BY <3>1, <3>2
  <2>4. CASE q # r
    <3>1. Len(seen[q]) <= 1 /\ (IsCall(q) /\ seen[q] # <<>> => Told(q)) /\ seen'[q] = seen[q]
      BY <1>1, <1>6, <2>4 DEF Honest
    <3>2. Told(q) => Told(q)'
      BY <1>9, <2>4, <3>1 DEF Told
    <3>3. QED
      BY <2>2, <3>1, <3>2
  <2>5. QED
    BY <2>3, <2>4
<1>13. Host!Close(r, a) \/ UNCHANGED <<HostPhase, runs, HostReply>>
  <2>1. runs[r] = 0
    BY <1>1, <1>4, <1>5 DEF Operated
  <2>2. QED
    BY <1>1, <1>3, <1>4, <1>5, <2>1, FirstAnswer DEF Shows
<1>14. QED
  BY <1>7, <1>10, <1>11, <1>12, <1>13 DEF FrontInv

\* A front lets go of the request it has posted, with the reply or without.
LEMMA LetGoInv ==
  ASSUME FrontInv, NEW f \in Fronts, hand[f] \in posted, NEW a, Answer(hand[f], a),
         hand' = [hand EXCEPT ![f] = Nothing],
         UNCHANGED <<ask, lines, posted, phase, runs, reply>>,
         \/ a \in Tool!Inconclusive
         \/ phase[hand[f]] = "closed" /\ a = reply[hand[f]]
  PROVE  FrontInv' /\ (Host!Close(hand[f], a) \/ UNCHANGED <<HostPhase, runs, HostReply>>)
<1> DEFINE r == hand[f]
<1>1. FrontTypeOK /\ InTurn /\ Operated /\ Honest
  BY DEF FrontInv
<1>2. r \in Requests /\ r \in posted /\ r # Nothing
  BY <1>1, FrontsAssumption DEF FrontTypeOK
<1>3. ask[r].front = f /\ seen[r] = <<>> /\ IsCall(r)
  BY <1>1, <1>2 DEF InTurn
<1>4. /\ a \in Tool!Answers
      /\ a = "refused" => runs[r] = 0
      /\ a = "result" => runs[r] = 1
      /\ a \in Tool!Inconclusive \/ (phase[r] = "closed" /\ reply[r] = a)
  <2>1. reply[r] # "none" => reply[r] \in Tool!Answers
    BY <1>1, <1>2 DEF FrontTypeOK
  <2>2. QED
    BY <1>1, <1>2, <2>1, FrontNames DEF Operated
<1> HIDE DEF r
<1>5. Shows(r, a)
  BY AnswerShows DEF r
<1>6. /\ seen' \in [Requests -> Seq(Tool!Answers)]
      /\ \A q \in Requests \ {r} : seen'[q] = seen[q]
      /\ seen'[r] = <<>> \/ (seen'[r] = <<a>> /\ seen'[r] # <<>> /\ seen'[r][1] = a)
      /\ Len(seen'[r]) <= 1
  BY <1>1, <1>2, <1>3, <1>4, <1>5, ShowsType
<1>7. FrontTypeOK'
  BY <1>1, <1>6 DEF FrontTypeOK
<1>8. InTurn'
  <2>1. ASSUME NEW g \in Fronts, NEW i \in DOMAIN lines[g]
        PROVE  lines[g][i] \in Requests \ {r}
    <3>1. lines[g] \in Seq(Requests)
      BY <1>1 DEF FrontTypeOK
    <3>2. lines[g][i] \in Requests
      BY <3>1
    <3>3. QED
      BY <1>1, <1>2, <3>2 DEF InTurn
  <2>2. ASSUME NEW g \in Fronts, hand'[g] # Nothing
        PROVE  hand'[g] = hand[g] /\ hand[g] \in Requests \ {r}
    <3>1. g # f /\ hand'[g] = hand[g]
      BY <1>1, <2>2 DEF FrontTypeOK
    <3>2. hand[g] # r
      BY <1>1, <1>3, <2>2, <3>1 DEF InTurn
    <3>3. QED
      BY <1>1, <2>2, <3>1, <3>2 DEF FrontTypeOK
  <2>3. \A q \in posted : IsCall(q)'
    BY <1>1 DEF InTurn, IsCall
  <2>4. ask[r] # Unsent
    BY <1>1, <1>2 DEF InTurn
  <2>5. \A g \in Fronts : \A i \in DOMAIN lines'[g] :
          /\ ask'[lines'[g][i]].front = g
          /\ lines'[g][i] \notin posted' /\ seen'[lines'[g][i]] = <<>>
          /\ \A j \in DOMAIN lines'[g] : lines'[g][i] = lines'[g][j] => i = j
    BY <1>1, <1>6, <2>1 DEF InTurn
  <2>6. \A g \in Fronts : hand'[g] # Nothing =>
          ask'[hand'[g]].front = g /\ hand'[g] \in posted' /\ seen'[hand'[g]] = <<>>
    BY <1>1, <1>6, <2>2 DEF InTurn
  <2>7. \A q \in Requests : ask'[q] = Unsent => q \notin posted' /\ seen'[q] = <<>>
    BY <1>1, <1>6, <2>4 DEF InTurn
  <2>8. \A q \in posted' : IsCall(q)'
    BY <2>3
  <2>9. QED
    BY <2>5, <2>6, <2>7, <2>8 DEF InTurn
<1>9. Operated'
  BY <1>1 DEF Operated
<1>10. Honest'
  <2>1. SUFFICES ASSUME NEW q \in Requests
                 PROVE  Len(seen'[q]) <= 1 /\ (IsCall(q)' /\ seen'[q] # <<>> => Told(q)')
    BY DEF Honest
  <2>2. IsCall(q)' = IsCall(q)
    BY DEF IsCall
  <2>3. CASE q = r
    <3>1. Len(seen'[q]) <= 1
      BY <1>6, <2>3
    <3>2. ASSUME seen'[q] # <<>>
          PROVE  Told(q)'
      BY <1>2, <1>4, <1>6, <2>3, <3>2 DEF Told
    <3>3. QED
      BY <3>1, <3>2
  <2>4. CASE q # r
    <3>1. Len(seen[q]) <= 1 /\ (IsCall(q) /\ seen[q] # <<>> => Told(q)) /\ seen'[q] = seen[q]
      BY <1>1, <1>6, <2>4 DEF Honest
    <3>2. Told(q) => Told(q)'
      BY <3>1 DEF Told
    <3>3. QED
      BY <2>2, <3>1, <3>2
  <2>5. QED
    BY <2>3, <2>4
<1>11. Host!Close(r, a) \/ UNCHANGED <<HostPhase, runs, HostReply>>
  BY <1>1, <1>2, <1>3, <1>4, <1>5, FirstAnswer, FrontNames DEF Shows
<1>12. QED
  BY <1>7, <1>8, <1>9, <1>10, <1>11 DEF FrontInv, r

-----------------------------------------------------------------------------
(* The controller.                                                         *)

\* What it does to a call that its client has an answer for agrees with that.
LEMMA ControllerInv ==
  ASSUME FrontInv, NEW r \in Requests, ControllerStep(r)
  PROVE  FrontInv' /\ (Host!Run(r) \/ UNCHANGED <<HostPhase, runs, HostReply>>)
<1>1. FrontTypeOK /\ InTurn /\ Operated /\ Honest
  BY DEF FrontInv
<1>2. UNCHANGED <<ask, lines, hand, posted, seen>>
  BY DEF ControllerStep
<1>3. HostPhase' = HostPhase /\ HostReply' = HostReply
  BY <1>2 DEF HostPhase, HostReply, IsCall
<1>4. InTurn'
  BY <1>1, <1>2 DEF InTurn, IsCall
<1>5. PICK b \in Tool!Answers :
        \/ Tool!Open(r) /\ r \in posted
        \/ Tool!Run(r)
        \/ Tool!Close(r, b) /\ (phase[r] = "new" => r \in posted)
  <2>1. CASE Serve(r)
    BY <2>1, FrontNames DEF Serve
  <2>2. CASE Operate(r)
    BY <2>2, FrontNames DEF Operate
  <2>3. CASE Reply(r)
    <3>1. PICK b \in Tool!Answers \ {"refused"} : Tool!Close(r, b)
      BY <2>3 DEF Reply
    <3>2. phase[r] # "new"
      BY <3>1 DEF Tool!Close
    <3>3. QED
      BY <3>1, <3>2
  <2>4. QED
    BY <2>1, <2>2, <2>3 DEF ControllerStep
<1>6. CASE Tool!Open(r) /\ r \in posted
  <2>1. /\ phase[r] = "new" /\ phase' = [phase EXCEPT ![r] = "open"]
        /\ runs' = runs /\ reply' = reply
    BY <1>6 DEF Tool!Open
  <2>2. phase'[r] = "open" /\ \A q \in Requests \ {r} : phase'[q] = phase[q]
    BY <1>1, <2>1 DEF FrontTypeOK
  <2>3. FrontTypeOK'
    BY <1>1, <1>2, <2>1 DEF FrontTypeOK
  <2>4. Operated'
    BY <1>1, <1>2, <1>6, <2>1, <2>2 DEF Operated
  <2>5. Honest'
    BY <1>1, <1>2, <2>1, <2>2 DEF Honest, Told, IsCall
  <2>6. QED
    BY <1>3, <1>4, <2>1, <2>3, <2>4, <2>5 DEF FrontInv
<1>7. CASE Tool!Run(r)
  <2>1. /\ runs[r] = 0 /\ runs' = [runs EXCEPT ![r] = 1]
        /\ phase[r] = "open" \/ (phase[r] = "closed" /\ reply[r] \in Tool!Inconclusive)
        /\ phase' = phase /\ reply' = reply
    BY <1>7 DEF Tool!Run
  <2>2. runs'[r] = 1 /\ \A q \in Requests \ {r} : runs'[q] = runs[q]
    BY <1>1, <2>1 DEF FrontTypeOK
  <2>3. FrontTypeOK'
    BY <1>1, <1>2, <2>1 DEF FrontTypeOK
  <2>4. phase[r] # "new" /\ reply[r] # "refused"
    BY <1>1, <2>1, FrontNames DEF Operated
  <2>5. Operated'
    BY <1>1, <1>2, <2>1, <2>2, <2>4 DEF Operated
  <2>6. Honest'
    BY <1>1, <1>2, <2>1 DEF Honest, Told, IsCall
  \* It has been posted, so it is a call: either unanswered, or so far inconclusive.
  <2>7. r \in posted /\ IsCall(r)
    BY <1>1, <2>4 DEF Operated, InTurn
  <2>8. HostPhase[r] = "open" \/ (HostPhase[r] = "closed" /\ HostReply[r] \in Tool!Inconclusive)
    <3>1. CASE seen[r] = <<>>
      BY <2>7, <3>1, Unseen
    <3>2. CASE seen[r] # <<>>
      <4>1. Told(r) /\ Len(seen[r]) <= 1 /\ seen[r] \in Seq(Tool!Answers)
        BY <1>1, <2>7, <3>2 DEF Honest, FrontTypeOK
      <4>2. Len(seen[r]) = 1 /\ Head(seen[r]) = seen[r][1]
        <5>1. Len(seen[r]) \in Nat /\ Len(seen[r]) # 0
          BY <3>2, <4>1
        <5>2. \A n \in Nat : n <= 1 /\ n # 0 => n = 1
          OBVIOUS
        <5>3. Len(seen[r]) = 1
          BY <4>1, <5>1, <5>2
        <5>4. Head(seen[r]) = seen[r][1]
          OBVIOUS
        <5>5. QED
          BY <5>3, <5>4
      <4>3. seen[r][1] \in Tool!Inconclusive
        BY <2>1, <2>7, <4>1 DEF Told
      <4>4. QED
        BY <2>7, <3>2, <4>2, <4>3, Unseen
    <3>3. QED
      BY <3>1, <3>2
  <2>9. Host!Run(r)
    BY <1>3, <2>1, <2>8, FrontNames DEF Host!Run
  <2>10. QED
    BY <1>4, <2>3, <2>5, <2>6, <2>9 DEF FrontInv
<1>8. CASE Tool!Close(r, b) /\ (phase[r] = "new" => r \in posted)
  <2>1. /\ phase[r] # "closed" /\ phase' = [phase EXCEPT ![r] = "closed"]
        /\ reply' = [reply EXCEPT ![r] = b] /\ runs' = runs
        /\ \/ phase[r] = "new"
           \/ b \in Tool!Inconclusive
           \/ b = "refused" /\ runs[r] = 0
           \/ b = "result" /\ runs[r] = 1
        /\ phase[r] = "new" => b = "refused"
    BY <1>8, FrontNames DEF Tool!Close
  <2>2. /\ phase'[r] = "closed" /\ reply'[r] = b
        /\ \A q \in Requests \ {r} : phase'[q] = phase[q] /\ reply'[q] = reply[q]
    BY <1>1, <2>1 DEF FrontTypeOK
  <2>3. FrontTypeOK'
    BY <1>1, <1>2, <2>1 DEF FrontTypeOK
  <2>4. r \in posted /\ b # "none" /\ (b = "refused" => runs[r] = 0) /\ (b = "result" => runs[r] = 1)
    BY <1>1, <1>8, <2>1, FrontNames DEF Operated
  <2>5. Operated'
    BY <1>1, <1>2, <2>1, <2>2, <2>4 DEF Operated
  <2>6. Honest'
    BY <1>1, <1>2, <2>1, <2>2 DEF Honest, Told, IsCall
  <2>7. QED
    BY <1>3, <1>4, <2>1, <2>3, <2>5, <2>6 DEF FrontInv
<1>9. QED
  BY <1>5, <1>6, <1>7, <1>8

-----------------------------------------------------------------------------
(* A step of the fronts, of their clients or of the controller.            *)

\* What a front answers by itself: a result to what is no call, and to a call
\* that nothing has been posted, or nothing that is certain.
LEMMA TakeInputInv ==
  ASSUME FrontInv, NEW f \in Fronts, TakeInput(f)
  PROVE  FrontInv' /\ ((\E r \in Requests, a \in Host!Answers : Host!Close(r, a))
                         \/ UNCHANGED <<HostPhase, runs, HostReply>>)
<1> DEFINE r == Head(lines[f])
<1>1. TakeLine(f) /\ UNCHANGED <<ask, phase, runs, reply>>
  BY FrontNames DEF TakeInput, TakeProxyLine, TakeStdioLine, MakeRequest, toolVars
<1>2. r \in Requests /\ ask[r].front = f /\ seen[r] = <<>>
  <2>1. lines[f] \in Seq(Requests) /\ lines[f] # <<>>
    BY <1>1 DEF TakeLine, FrontInv, FrontTypeOK
  <2>2. Len(lines[f]) \in Nat /\ Len(lines[f]) # 0
    BY <2>1
  <2>3. r = lines[f][1] /\ 1 \in DOMAIN lines[f] /\ r \in Requests
    BY <2>1, <2>2
  <2>4. QED
    BY <2>3 DEF FrontInv, InTurn
<1>3. f = "client" => IsCall(r)
  <2>1. \A m \in [front : Lines, form : LineForms, id : BOOLEAN] : m.front # "client"
    BY DEF Lines
  <2>2. ask[r] \in [front : Lines, form : LineForms, id : BOOLEAN] \cup ClientCalls \cup {Unsent}
    BY <1>2 DEF FrontInv, FrontTypeOK
  <2>3. QED
    BY <1>2, <2>1, <2>2, FrontNames, LibraryForms DEF IsCall
<1>4. \E a \in Tool!Inconclusive \cup {"refused", "result"} :
        /\ Shows(r, a) /\ (a = "result" => ~IsCall(r))
        /\ \/ UNCHANGED <<hand, posted>>
           \/ /\ posted' = posted \cup {r} /\ hand' = [hand EXCEPT ![f] = r]
              /\ seen' = seen /\ IsCall(r)
  <2>1. CASE f = "proxy"
    <3>1. TakeProxyLine
      BY <2>1, FrontNames DEF TakeInput
    <3>2. QED
      BY <2>1, <3>1, FrontNames DEF TakeProxyLine, Done, Keep, Answer, Shows, AnsweredByProxy,
             RaisesInProxy, IsCall
  <2>2. CASE f = "stdio"
    <3>1. TakeStdioLine
      BY <2>2, FrontNames DEF TakeInput
    <3>2. QED
      BY <2>2, <3>1, FrontNames DEF TakeStdioLine, Done, Keep, Answer, Shows, AnsweredByServer,
             RefusedByServer, IsCall
  <2>3. CASE f = "client"
    <3>1. MakeRequest
      BY <2>3, FrontNames DEF TakeInput
    <3>2. QED
      BY <1>3, <2>3, <3>1, FrontNames DEF MakeRequest, Done, Keep, Answer, Shows
  <2>4. QED
    BY <2>1, <2>2, <2>3, FrontNames
<1>5. PICK a \in Tool!Inconclusive \cup {"refused", "result"} :
        /\ Shows(r, a) /\ (a = "result" => ~IsCall(r))
        /\ \/ UNCHANGED <<hand, posted>>
           \/ /\ posted' = posted \cup {r} /\ hand' = [hand EXCEPT ![f] = r]
              /\ seen' = seen /\ IsCall(r)
  BY <1>4
<1>6. FrontInv' /\ (Host!Close(r, a) \/ UNCHANGED <<HostPhase, runs, HostReply>>)
  BY <1>1, <1>5, TakeInv
<1>7. QED
  BY <1>2, <1>6, FrontNames

\* What a front shows of the reply of the controller, or answers without it.
LEMMA LetsGoInv ==
  ASSUME FrontInv, NEW f \in Fronts, Receive(f) \/ GiveUp(f)
  PROVE  FrontInv' /\ ((\E r \in Requests, a \in Host!Answers : Host!Close(r, a))
                         \/ UNCHANGED <<HostPhase, runs, HostReply>>)
<1>1. \E a \in Tool!Answers :
        /\ hand[f] \in posted /\ Answer(hand[f], a) /\ hand' = [hand EXCEPT ![f] = Nothing]
        /\ UNCHANGED <<ask, lines, posted, phase, runs, reply>>
        /\ \/ a \in Tool!Inconclusive
           \/ phase[hand[f]] = "closed" /\ a = reply[hand[f]]
  <2>1. CASE GiveUp(f)
    BY <2>1, FrontNames DEF GiveUp, toolVars
  <2>2. CASE Receive(f)
    <3>1. phase[hand[f]] = "closed" /\ hand[f] \in posted
      BY <2>2 DEF Receive
    <3>2. reply[hand[f]] \in Tool!Answers
      BY <3>1 DEF FrontInv, FrontTypeOK, Operated
    <3>3. Shown(hand[f]) \in {"raised", "error"} \/ Shown(hand[f]) = reply[hand[f]]
      BY DEF Shown
    <3>4. QED
      BY <2>2, <3>1, <3>2, <3>3, FrontNames DEF Receive, toolVars
  <2>3. QED
    BY <2>1, <2>2
<1>2. PICK a \in Tool!Answers :
        /\ hand[f] \in posted /\ Answer(hand[f], a) /\ hand' = [hand EXCEPT ![f] = Nothing]
        /\ UNCHANGED <<ask, lines, posted, phase, runs, reply>>
        /\ \/ a \in Tool!Inconclusive
           \/ phase[hand[f]] = "closed" /\ a = reply[hand[f]]
  BY <1>1
<1>3. FrontInv' /\ (Host!Close(hand[f], a) \/ UNCHANGED <<HostPhase, runs, HostReply>>)
  BY <1>2, LetGoInv
<1>4. hand[f] \in Requests
  BY <1>2 DEF FrontInv, FrontTypeOK
<1>5. QED
  BY <1>3, <1>4, FrontNames

LEMMA StepInv ==
  FrontInv /\ [Next]_frontVars => FrontInv' /\ [Host!Next]_(Host!callVars)
<1> SUFFICES ASSUME FrontInv, [Next]_frontVars
             PROVE  FrontInv' /\ (Host!Next \/ UNCHANGED <<HostPhase, runs, HostReply>>)
  BY DEF Host!callVars
<1>1. CASE \E r \in Requests : SendLine(r) \/ CallMethod(r)
  <2>1. PICK r \in Requests : \E m \in Asks[r] : Write(r, m)
    BY <1>1 DEF SendLine, CallMethod
  <2>2. QED
    BY <2>1, WriteInv DEF Host!Next
<1>2. CASE \E r \in Requests : ControllerStep(r)
  BY <1>2, ControllerInv DEF Host!Next
<1>3. CASE \E f \in Fronts : FrontStep(f)
  BY <1>3, TakeInputInv, LetsGoInv DEF FrontStep, Host!Next
<1>4. CASE UNCHANGED frontVars
  <2>1. UNCHANGED <<ask, lines, hand, posted, phase, runs, reply, seen>>
    BY <1>4 DEF frontVars, toolVars
  <2>2. FrontInv'
    BY <2>1 DEF FrontInv, FrontTypeOK, InTurn, Operated, Honest, Told, IsCall
  <2>3. UNCHANGED <<HostPhase, runs, HostReply>>
    BY <2>1 DEF HostPhase, HostReply, IsCall
  <2>4. QED
    BY <2>2, <2>3
<1>5. QED
  BY <1>1, <1>2, <1>3, <1>4 DEF Next

\* Every behaviour of the fronts is, as their clients see it, one that AgentCall
\* allows: one answer to a request, a result only after the operation has run,
\* which it does once at most, and never after a refusal, although proxy and
\* client give up on calls that are still to run and answer some by themselves.
THEOREM FrontsKeepCall == FrontSpec => ClientsRelyOnCall
<1>1. Init /\ [][Next]_frontVars => Host!Init /\ [][Host!Next]_(Host!callVars)
  BY InitInv, StepInv, PTL
<1>2. QED
  BY <1>1, PTL DEF FrontSpec, ClientsRelyOnCall, Host!Spec
=============================================================================
