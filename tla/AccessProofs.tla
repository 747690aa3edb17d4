---------------------------- MODULE AccessProofs ----------------------------
(***************************************************************************)
(* What the register grants is what was there at one moment, and what the  *)
(* generator wrote is granted: for any nodes, controllers, applications    *)
(* and any number of kills, restarts and removals.                         *)
(***************************************************************************)
EXTENDS AppAccess, WellFoundedInduction, TLAPS

(***************************************************************************)
(* A request is served in several looks at Redis.  Nodes come and publish  *)
(* only between two requests, so whoever is a member now was one when the  *)
(* request was received: a node that was looked for and found belongs to   *)
(* met, even if it has been removed since.  What an application asks for   *)
(* must not change meanwhile; the generated one is fixed before a          *)
(* controller that has it is started.                                      *)
(***************************************************************************)
HasTemplate(c) == \E i \in DOMAIN AppsOf[c] : AppsOf[c][i] = Template
Active(c) == pc[c] # "off" \/ inbox[c] # "none" \/ (serving # Nobody /\ serving[1] = c)

LooksHeld ==
  /\ serverPc # "recv" => members \subseteq met
  /\ serverPc \in {"nodes", "caps", "store"} =>
       App \in registered /\ todo \subseteq WantOf(App).nodes
       /\ WantOf(App).nodes \subseteq met \cup todo
  /\ serverPc \in {"caps", "store"} => todo = {}
  /\ serverPc = "store" => WantOf(App).caps \subseteq Available
TemplateFixed ==
  \A c \in Controllers : HasTemplate(c) /\ Active(c) => genPc \in {"done", "switched"}
KnownApps == \A c \in Controllers : pc[c] = "request" => AppOf(c) \in registered

\* What the generator has read is still there, but for the nodes that left; in
\* the stack it wrote, that of the nodes that came back is there again.
Collected ==
  /\ genNodes \subseteq members \cup left
  /\ \A x \in genTodo : x[1] \in genNodes
  /\ \A x \in genCaps : x[1] \in genNodes
  /\ genPc # "switched" => genCaps \subseteq Available
  /\ genPc = "switched" => \A x \in genCaps : x[1] \in left \/ x \in Available
  /\ genPc \in {"done", "switched"} =>
       template = [nodes |-> {x[1] : x \in genCaps}, caps |-> genCaps]

AccessInv == AccessTypeOK /\ LooksHeld /\ TemplateFixed /\ KnownApps /\ Collected

USE AccessAssumption

-----------------------------------------------------------------------------
(* Applications and what they ask for.                                     *)

LEMMA AppType ==
  ASSUME AccessTypeOK, NEW c \in Controllers
  PROVE  AppOf(c) \in Apps /\ WantOf(AppOf(c)) \in Wants /\ (AppOf(c) = Template => HasTemplate(c))
<1>1. at[c] \in DOMAIN AppsOf[c]
  BY DEF AccessTypeOK
<1>2. AppOf(c) \in Apps
  BY <1>1 DEF AppOf, Apps
<1>3. WantOf(AppOf(c)) \in Wants
  BY <1>2 DEF WantOf, AccessTypeOK
<1>4. QED
  BY <1>1, <1>2, <1>3 DEF AppOf, HasTemplate

LEMMA ServingType ==
  ASSUME AccessTypeOK, serverPc # "recv"
  PROVE  /\ serving # Nobody /\ serving[1] \in Controllers
         /\ App \in Apps /\ WantOf(App) \in Wants
         /\ App = Template => HasTemplate(serving[1])
         /\ Active(serving[1])
<1>1. serving # Nobody /\ serving \in Controllers \X {"register", "request"}
  BY DEF AccessTypeOK
<1>2. serving[1] \in Controllers
  BY <1>1
<1>3. QED
  BY <1>1, <1>2, AppType DEF App, Active

LEMMA CapsNodes ==
  ASSUME NEW S \in SUBSET Caps
  PROVE  {x[1] : x \in S} \subseteq Nodes
BY DEF Caps, CapsOf

\* What was published goes on being available.
LEMMA AvailableGrows ==
  ASSUME published \subseteq published'
  PROVE  Available \subseteq Available'
BY DEF Available

\* The generator goes through the nodes in ascending order.
LEMMA FirstExists ==
  ASSUME NEW T \in SUBSET (Nodes \X Kinds), T # {}
  PROVE  \E x \in T : \A z \in T : First(x, z)
<1> DEFINE S == {x[1] : x \in T}
<1>1. S \in SUBSET Nat /\ S # {}
  OBVIOUS
<1>2. \A z \in T : z[1] \in S /\ z[1] \in Nat /\ z[2] \in Kinds
  OBVIOUS
<1>3. \A n \in S : \E y \in T : y[1] = n
  OBVIOUS
<1> HIDE DEF S
<1>4. PICK n \in S : \A j \in S : <<j, n>> \notin OpToRel(<, Nat)
  BY <1>1, NatLessThanWellFounded, WFMin
<1>5. n \in Nat /\ \A j \in S : j \in Nat /\ n <= j
  <2>1. \A j \in S : ~(j < n)
    BY <1>1, <1>4 DEF OpToRel
  <2>2. QED
    BY <1>1, <2>1
<1>6. CASE \E y \in T : y[1] = n /\ y[2] = "pm"
  <2>1. PICK y \in T : y[1] = n /\ y[2] = "pm"
    BY <1>6
  <2>2. \A z \in T : y[1] < z[1] \/ y[1] = z[1]
    BY <1>2, <1>5, <2>1
  <2>3. QED
    BY <2>1, <2>2 DEF First
<1>7. CASE \A y \in T : y[1] = n => y[2] # "pm"
  <2>1. PICK y \in T : y[1] = n
    BY <1>3
  <2>2. \A z \in T : y[1] < z[1] \/ (y[1] = z[1] /\ z[2] = "ctrl")
    BY <1>2, <1>5, <1>7, <2>1 DEF Kinds
  <2>3. QED
    BY <2>1, <2>2 DEF First
<1>8. QED
  BY <1>6, <1>7

LEMMA InitInv == Init => AccessInv
<1> SUFFICES ASSUME Init
             PROVE  AccessInv
  OBVIOUS
<1>1. AccessTypeOK
  <2>1. \A c \in Controllers : at[c] \in DOMAIN AppsOf[c]
    <3>1. \A c \in Controllers : Len(AppsOf[c]) \in Nat /\ Len(AppsOf[c]) # 0
      OBVIOUS
    <3>2. QED
      BY <3>1 DEF Init
  <2>2. template \in Wants
    BY DEF Init, Nothing, Wants
  <2>3. QED
    BY <2>1, <2>2 DEF Init, AccessTypeOK
<1>2. LooksHeld
  BY DEF Init, LooksHeld
<1>3. TemplateFixed /\ KnownApps
  BY DEF Init, TemplateFixed, KnownApps, Active
<1>4. Collected
  BY DEF Init, Collected
<1>5. QED
  BY <1>1, <1>2, <1>3, <1>4 DEF AccessInv

-----------------------------------------------------------------------------
(* Nodes come, publish and go.                                             *)

LEMMA NodeInv == AccessInv /\ NodeStep => AccessInv'
<1> SUFFICES ASSUME AccessInv, NodeStep
             PROVE  AccessInv'
  OBVIOUS
<1>1. /\ UNCHANGED <<stack, registered, granted, server, client, generator, kills, restarts>>
      /\ \E n \in Nodes :
           RegisterNode(n) \/ (\E k \in Kinds : PublishNode(n, k)) \/ RemoveNode(n)
  BY DEF NodeStep
<1>2. UNCHANGED <<stack, registered, granted, serverPc, serving, todo, met, pc, at, inbox,
                  genPc, genTodo, genNodes, genCaps, template, kills, restarts>>
  BY <1>1 DEF server, client, generator
<1>3. /\ published \subseteq published' /\ published' \subseteq stack \X Kinds
      /\ members' \subseteq stack /\ left' \subseteq Nodes
      /\ members \cup left \subseteq members' \cup left'
      /\ \A n \in left \ left' : Complete(n, members', published')
      /\ serverPc # "recv" => members' \subseteq members
      /\ leaves' \in 0..MaxLeaves
  <2> USE <1>1 DEF AccessInv, AccessTypeOK
  <2>1. PICK n \in Nodes :
          RegisterNode(n) \/ (\E k \in Kinds : PublishNode(n, k)) \/ RemoveNode(n)
    BY <1>1
  <2>2. CASE RegisterNode(n)
    BY <2>2 DEF RegisterNode, NoteReturn, Complete
  <2>3. CASE \E k \in Kinds : PublishNode(n, k)
    BY <2>3 DEF PublishNode, NoteReturn, Complete
  <2>4. CASE RemoveNode(n)
    <3>1. /\ n \in members /\ members' = members \ {n} /\ left' = left \cup {n}
          /\ published' = published
      BY <2>4 DEF RemoveNode
    <3>2. leaves' \in 0..MaxLeaves
      BY <2>4 DEF RemoveNode
    <3>3. QED
      BY <3>1, <3>2
  <2>5. QED
    BY <2>1, <2>2, <2>3, <2>4
<1>4. AccessTypeOK'
  BY <1>2, <1>3 DEF AccessInv, AccessTypeOK
<1>5. Available \subseteq Available'
  BY <1>3, AvailableGrows
<1>6. App' = App /\ WantOf(App)' = WantOf(App)
  BY <1>2 DEF App, AppOf, WantOf
<1>7. LooksHeld'
  BY <1>2, <1>3, <1>5, <1>6 DEF AccessInv, LooksHeld
<1>8. TemplateFixed' /\ KnownApps'
  BY <1>2 DEF AccessInv, TemplateFixed, KnownApps, Active, AppOf
<1>9. Collected'
  <2>1. ASSUME NEW x \in genCaps, x[1] \in left \ left'
        PROVE  x \in Available'
    <3>1. PICK n \in Nodes, k \in Kinds : x \in CapsOf(n, k)
      BY DEF AccessInv, AccessTypeOK, Caps
    <3>2. x[1] = n /\ Offers[n][k] # {}
      BY <3>1 DEF CapsOf
    <3>3. <<n, k>> \in published'
      BY <1>3, <2>1, <3>2 DEF Complete
    <3>4. QED
      BY <3>1, <3>3 DEF Available
  <2>2. genPc = "switched" => \A x \in genCaps : x[1] \in left' \/ x \in Available'
    BY <1>5, <2>1 DEF AccessInv, Collected
  <2>3. QED
    BY <1>2, <1>3, <1>4, <1>5, <2>2 DEF AccessInv, Collected, AccessTypeOK
<1>10. QED
  BY <1>4, <1>7, <1>8, <1>9 DEF AccessInv

-----------------------------------------------------------------------------
(* The register's thread.                                                  *)

LEMMA ReceiveInv ==
  ASSUME AccessInv, NEW c \in Controllers, ReceiveRequest(c), UNCHANGED Elsewhere
  PROVE  AccessInv'
<1>1. /\ serverPc = "recv" /\ inbox[c] \in {"register", "request"}
      /\ serving' = <<c, inbox[c]>> /\ inbox' = [inbox EXCEPT ![c] = "none"]
      /\ serverPc' \in {"add", "app"} /\ met' = members
      /\ UNCHANGED <<todo, pc, at, registered, granted>>
  BY DEF ReceiveRequest, AccessInv, AccessTypeOK
<1>2. UNCHANGED <<stack, members, published, genPc, genTodo, genNodes, genCaps, template, left,
                  kills, restarts, leaves>>
  BY DEF Elsewhere, generator, bounds
<1>3. AccessTypeOK'
  BY <1>1, <1>2 DEF AccessInv, AccessTypeOK, Nobody
<1>4. LooksHeld'
  BY <1>1, <1>2 DEF LooksHeld
<1>5. TemplateFixed'
  <2>1. \A d \in Controllers : Active(d)' => Active(d)
    BY <1>1 DEF Active, AccessInv, AccessTypeOK
  <2>2. QED
    BY <1>2, <2>1 DEF AccessInv, TemplateFixed, HasTemplate
<1>6. KnownApps'
  BY <1>1 DEF AccessInv, KnownApps, AppOf
<1>7. Collected'
  BY <1>2 DEF AccessInv, Collected, Available
<1>8. QED
  BY <1>3, <1>4, <1>5, <1>6, <1>7 DEF AccessInv

\* The answer to a request: the controller goes on, if it still waits.
LEMMA ReplyInv ==
  ASSUME AccessInv, serverPc # "recv", NEW ok \in BOOLEAN, Reply(serving[1], ok),
         UNCHANGED Elsewhere,
         registered \subseteq registered', registered' \subseteq Apps,
         DOMAIN granted' \subseteq registered', \A a \in DOMAIN granted' : granted'[a] \in Wants,
         ok => App \in registered'
  PROVE  AccessInv'
<1> DEFINE c == serving[1]
           next == AfterReply(c, ok)
<1>1. serverPc' = "recv" /\ serving' = Nobody /\ todo' = {} /\ met' = {}
  BY DEF Reply
<1>2. UNCHANGED <<stack, members, published, genPc, genTodo, genNodes, genCaps, template, left,
                  kills, restarts, leaves>>
  BY DEF Elsewhere, generator, bounds
<1>3. c \in Controllers /\ Active(c)
  BY ServingType DEF AccessInv
<1>4. CASE UNCHANGED client
  <2>1. UNCHANGED <<pc, at, inbox>>
    BY <1>4 DEF client
  <2>2. AccessTypeOK'
    BY <1>1, <1>2, <2>1 DEF AccessInv, AccessTypeOK
  <2>3. TemplateFixed' /\ KnownApps'
    BY <1>1, <1>2, <2>1 DEF AccessInv, TemplateFixed, KnownApps, Active, AppOf, HasTemplate
  <2>4. LooksHeld' /\ Collected'
    BY <1>1, <1>2 DEF AccessInv, LooksHeld, Collected, Available
  <2>5. QED
    BY <2>2, <2>3, <2>4 DEF AccessInv
<1>5. CASE /\ pc' = [pc EXCEPT ![c] = next]
           /\ at' = [at EXCEPT ![c] = IF pc[c] = "request" /\ next = "register"
                                      THEN at[c] + 1 ELSE at[c]]
           /\ inbox' = [inbox EXCEPT ![c] = IF next \in {"register", "request"}
                                            THEN next ELSE "none"]
  <2>1. /\ next \in {"off", "register", "request", "up"}
        /\ next = "request" => pc[c] = "register" /\ ok
        /\ pc[c] = "request" /\ next = "register" => at[c] < Len(AppsOf[c])
    BY DEF AfterReply
  <2> HIDE DEF next
  <2>2. /\ \A d \in Controllers : d # c =>
             pc'[d] = pc[d] /\ at'[d] = at[d] /\ inbox'[d] = inbox[d]
        /\ pc'[c] = next /\ (inbox'[c] \in {"register", "request"} => pc'[c] # "off")
        /\ at'[c] = at[c] \/ (at'[c] = at[c] + 1 /\ next = "register" /\ at[c] < Len(AppsOf[c]))
    BY <1>3, <1>5, <2>1 DEF AccessInv, AccessTypeOK
  <2>3. at' \in [Controllers -> Nat] /\ \A d \in Controllers : at'[d] \in DOMAIN AppsOf[d]
    <3>1. \A d \in Controllers : Len(AppsOf[d]) \in Nat /\ DOMAIN AppsOf[d] = 1..Len(AppsOf[d])
      OBVIOUS
    <3>2. at \in [Controllers -> Nat] /\ \A d \in Controllers : at[d] \in DOMAIN AppsOf[d]
      BY DEF AccessInv, AccessTypeOK
    <3>3. at' \in [Controllers -> Nat]
      BY <1>3, <1>5, <3>2
    <3>4. QED
      BY <2>2, <3>1, <3>2, <3>3
  <2>4. /\ pc' \in [Controllers -> {"off", "register", "request", "up"}]
        /\ inbox' \in [Controllers -> {"none", "register", "request"}]
    BY <1>3, <1>5, <2>1 DEF AccessInv, AccessTypeOK
  <2>5. AccessTypeOK'
    BY <1>1, <1>2, <2>3, <2>4 DEF AccessInv, AccessTypeOK
  <2>6. TemplateFixed'
    BY <1>1, <1>2, <1>3, <2>2 DEF AccessInv, TemplateFixed, Active, HasTemplate
  <2>7. KnownApps'
    <3>1. SUFFICES ASSUME NEW d \in Controllers, pc'[d] = "request"
                   PROVE  AppsOf[d][at'[d]] \in registered'
      BY DEF KnownApps, AppOf
    <3>2. CASE d = c
      BY <2>1, <2>2, <3>1, <3>2 DEF App, AppOf
    <3>3. CASE d # c
      BY <2>2, <3>1, <3>3 DEF AccessInv, KnownApps, AppOf
    <3>4. QED
      BY <3>2, <3>3
  <2>8. LooksHeld' /\ Collected'
    BY <1>1, <1>2 DEF AccessInv, LooksHeld, Collected, Available
  <2>9. QED
    BY <2>5, <2>6, <2>7, <2>8 DEF AccessInv
<1>6. QED
  BY <1>4, <1>5 DEF Reply

\* A look at Redis that finds what it looks for: the request goes on.
LEMMA LookInv ==
  ASSUME AccessInv, serverPc # "recv", serverPc' \in {"nodes", "caps", "store"},
         UNCHANGED <<serving, met, client, registered, granted>>, UNCHANGED Elsewhere,
         App \in registered, todo' \subseteq WantOf(App).nodes,
         WantOf(App).nodes \subseteq met \cup todo',
         serverPc' \in {"caps", "store"} => todo' = {},
         serverPc' = "store" => WantOf(App).caps \subseteq Available
  PROVE  AccessInv'
<1>1. UNCHANGED <<stack, members, published, pc, at, inbox, genPc, genTodo, genNodes, genCaps,
                  template, left, kills, restarts, leaves>>
  BY DEF Elsewhere, generator, bounds, client
<1>2. todo' \subseteq Nodes
  BY ServingType DEF AccessInv, Wants
<1>3. AccessTypeOK'
  BY <1>1, <1>2 DEF AccessInv, AccessTypeOK
<1>4. App' = App /\ WantOf(App)' = WantOf(App) /\ Available' = Available
  BY <1>1 DEF App, AppOf, WantOf, Available
<1>5. LooksHeld'
  BY <1>1, <1>4 DEF AccessInv, LooksHeld
<1>6. TemplateFixed' /\ KnownApps'
  BY <1>1 DEF AccessInv, TemplateFixed, KnownApps, Active, AppOf, HasTemplate
<1>7. Collected'
  BY <1>1, <1>4 DEF AccessInv, Collected
<1>8. QED
  BY <1>3, <1>5, <1>6, <1>7 DEF AccessInv

LEMMA ServeInv == AccessInv /\ Serve /\ UNCHANGED Elsewhere => AccessInv'
<1> SUFFICES ASSUME AccessInv, Serve, UNCHANGED Elsewhere
             PROVE  AccessInv'
  OBVIOUS
<1>1. serverPc # "recv"
  BY DEF Serve, RegisterAiApp, CheckApp, CheckNode, CheckCaps, StoreActions
<1>2. App \in Apps /\ WantOf(App) \in Wants
  BY <1>1, ServingType DEF AccessInv
<1>3. /\ registered \subseteq Apps /\ DOMAIN granted \subseteq registered
      /\ \A a \in DOMAIN granted : granted[a] \in Wants
  BY DEF AccessInv, AccessTypeOK
<1>4. LooksHeld
  BY DEF AccessInv
\* A refusal changes nothing but the controller and the server.
<1>5. CASE Reply(serving[1], FALSE) /\ UNCHANGED <<registered, granted>>
  BY <1>1, <1>3, <1>5, ReplyInv
<1>6. CASE RegisterAiApp
  <2>1. registered' = registered \cup {App} /\ granted' = granted /\ Reply(serving[1], TRUE)
    BY <1>6 DEF RegisterAiApp
  <2>2. QED
    BY <1>1, <1>2, <1>3, <2>1, ReplyInv
<1>7. CASE CheckApp
  <2>1. CASE App \in registered
    <3>1. /\ serverPc' = "nodes" /\ todo' = WantOf(App).nodes
          /\ UNCHANGED <<serving, met, client, registered, granted>>
      BY <1>7, <2>1 DEF CheckApp
    <3>2. QED
      BY <1>1, <2>1, <3>1, LookInv
  <2>2. CASE App \notin registered
    BY <1>5, <1>7, <2>2 DEF CheckApp
  <2>3. QED
    BY <2>1, <2>2
<1>8. CASE CheckNode
  <2>1. serverPc = "nodes" /\ UNCHANGED <<registered, granted>>
    BY <1>8 DEF CheckNode
  <2>2. CASE todo = {} /\ serverPc' = "caps" /\ UNCHANGED <<serving, todo, met, client>>
    BY <1>1, <1>4, <2>1, <2>2, LookInv DEF LooksHeld
  <2>3. CASE \E n \in todo : n \notin members /\ Reply(serving[1], FALSE)
    BY <1>5, <2>1, <2>3
  <2>4. ASSUME NEW n \in todo, n \in members, todo' = todo \ {n},
               UNCHANGED <<serverPc, serving, met, client>>
        PROVE  AccessInv'
    <3>1. n \in met
      BY <1>1, <1>4, <2>4 DEF LooksHeld
    <3>2. QED
      BY <1>1, <1>4, <2>1, <2>4, <3>1, LookInv DEF LooksHeld
  <2>5. QED
    BY <1>8, <2>2, <2>3, <2>4 DEF CheckNode
<1>9. CASE CheckCaps
  <2>1. serverPc = "caps" /\ UNCHANGED <<registered, granted>>
    BY <1>9 DEF CheckCaps
  <2>2. CASE /\ WantOf(App).caps \subseteq Available
             /\ serverPc' = "store" /\ UNCHANGED <<serving, todo, met, client>>
    BY <1>1, <1>4, <2>1, <2>2, LookInv DEF LooksHeld
  <2>3. QED
    BY <1>5, <1>9, <2>1, <2>2 DEF CheckCaps
<1>10. CASE StoreActions
  <2>1. /\ granted' = [a \in DOMAIN granted \cup {App} |->
                         IF a = App THEN WantOf(App) ELSE granted[a]]
        /\ registered' = registered /\ Reply(serving[1], TRUE)
    BY <1>10 DEF StoreActions
  <2>2. App \in registered
    BY <1>4, <1>10 DEF LooksHeld, StoreActions
  <2>3. DOMAIN granted' \subseteq registered /\ \A a \in DOMAIN granted' : granted'[a] \in Wants
    BY <1>2, <1>3, <2>1, <2>2
  <2>4. QED
    BY <1>1, <1>3, <2>1, <2>2, <2>3, ReplyInv
<1>11. QED
  BY <1>6, <1>7, <1>8, <1>9, <1>10 DEF Serve

\* The register is started again and has lost what it had received.
LEMMA RestartInv == AccessInv /\ RestartRegister => AccessInv'
<1> SUFFICES ASSUME AccessInv, RestartRegister
             PROVE  AccessInv'
  OBVIOUS
<1>1. /\ restarts' \in 0..MaxRestarts
      /\ serverPc' = "recv" /\ serving' = Nobody /\ todo' = {} /\ met' = {}
      /\ inbox' \in [Controllers -> {"none", "register", "request"}]
      /\ \A c \in Controllers : inbox'[c] \in {"none", inbox[c]}
      /\ UNCHANGED <<stack, members, published, registered, granted, pc, at, genPc, genTodo,
                     genNodes, genCaps, template, left, kills, leaves>>
  BY DEF RestartRegister, redis, generator, AccessInv, AccessTypeOK
<1>2. AccessTypeOK'
  BY <1>1 DEF AccessInv, AccessTypeOK
<1>3. LooksHeld'
  BY <1>1 DEF LooksHeld
<1>4. TemplateFixed' /\ KnownApps'
  BY <1>1 DEF AccessInv, TemplateFixed, KnownApps, Active, AppOf, HasTemplate
<1>5. Collected'
  BY <1>1 DEF AccessInv, Collected, Available
<1>6. QED
  BY <1>2, <1>3, <1>4, <1>5 DEF AccessInv

-----------------------------------------------------------------------------
(* Controllers.                                                            *)

LEMMA ControllerInv ==
  ASSUME AccessInv, NEW c \in Controllers, StartController(c) \/ KillController(c)
  PROVE  AccessInv'
<1>1. /\ UNCHANGED <<stack, members, published, registered, granted, serverPc, serving, todo, met,
                     genPc, genTodo, genNodes, genCaps, template, left, restarts, leaves>>
      /\ kills' \in 0..MaxKills
  BY DEF StartController, KillController, redis, server, generator, bounds, AccessInv, AccessTypeOK
<1>2. /\ \A d \in Controllers : d # c => pc'[d] = pc[d] /\ at'[d] = at[d] /\ inbox'[d] = inbox[d]
      /\ pc' \in [Controllers -> {"off", "register", "request", "up"}]
      /\ inbox' \in [Controllers -> {"none", "register", "request"}]
      /\ at' \in [Controllers -> Nat] /\ \A d \in Controllers : at'[d] \in DOMAIN AppsOf[d]
      /\ pc'[c] # "request"
  <2>1. \A d \in Controllers : Len(AppsOf[d]) \in Nat /\ Len(AppsOf[d]) # 0
    OBVIOUS
  <2>2. 1 \in DOMAIN AppsOf[c]
    BY <2>1
  <2>3. CASE StartController(c)
    BY <2>2, <2>3 DEF StartController, AccessInv, AccessTypeOK
  <2>4. CASE KillController(c)
    BY <2>4 DEF KillController, AccessInv, AccessTypeOK
  <2>5. QED
    BY <2>3, <2>4
<1>3. AccessTypeOK'
  BY <1>1, <1>2 DEF AccessInv, AccessTypeOK
\* The application in hand of the request being served is not another one.
<1>4. serverPc # "recv" => App' = App /\ WantOf(App)' = WantOf(App)
  <2>1. SUFFICES ASSUME serverPc # "recv"
                 PROVE  App' = App
    BY <1>1 DEF WantOf
  <2>2. serving # Nobody /\ serving[1] \in Controllers
    BY <2>1, ServingType DEF AccessInv
  <2>3. at'[serving[1]] = at[serving[1]]
    <3>1. CASE StartController(c)
      BY <1>2, <2>2, <3>1 DEF StartController
    <3>2. CASE KillController(c)
      BY <3>2 DEF KillController
    <3>3. QED
      BY <3>1, <3>2
  <2>4. QED
    BY <1>1, <2>3 DEF App, AppOf
<1>5. LooksHeld'
  BY <1>1, <1>4 DEF AccessInv, LooksHeld, Available
<1>6. TemplateFixed'
  <2>1. \A d \in Controllers : d # c /\ Active(d)' => Active(d)
    BY <1>1, <1>2 DEF Active
  <2>2. CASE StartController(c)
    BY <1>1, <2>1, <2>2 DEF StartController, AccessInv, TemplateFixed, HasTemplate
  <2>3. CASE KillController(c)
    <3>1. Active(c)
      BY <2>3 DEF KillController, Active
    <3>2. QED
      BY <1>1, <2>1, <3>1 DEF AccessInv, TemplateFixed, HasTemplate
  <2>4. QED
    BY <2>2, <2>3
<1>7. KnownApps'
  BY <1>1, <1>2 DEF AccessInv, KnownApps, AppOf
<1>8. Collected'
  BY <1>1 DEF AccessInv, Collected, Available
<1>9. QED
  BY <1>3, <1>5, <1>6, <1>7, <1>8 DEF AccessInv

-----------------------------------------------------------------------------
(* The generator, and the stack it writes.                                 *)

LEMMA GenerateInv == AccessInv /\ Generate => AccessInv'
<1> SUFFICES ASSUME AccessInv, Generate
             PROVE  AccessInv'
  OBVIOUS
<1>1. UNCHANGED <<stack, members, published, registered, granted, serverPc, serving, todo, met,
                  pc, at, inbox, kills, restarts, leaves>>
  BY DEF Generate, redis, server, client, bounds
<1>2. Available' = Available
  BY <1>1 DEF Available
<1>3. members \subseteq Nodes
  BY DEF AccessInv, AccessTypeOK
<1>4. genPc \in {"off", "collect"} /\ genPc' \in {"collect", "done"}
      /\ (genPc' = "collect" => template' = template)
  BY DEF Generate, ListForTemplate, CollectCaps, WriteTemplate
<1>5. /\ genTodo' \subseteq Nodes \X Kinds /\ genNodes' \subseteq Nodes /\ genCaps' \subseteq Caps
      /\ left' \subseteq Nodes /\ template' \in Wants /\ Collected'
  <2>1. CASE ListForTemplate
    BY <1>1, <1>3, <2>1 DEF ListForTemplate, AccessInv, AccessTypeOK, Collected
  <2>2. CASE CollectCaps
    <3> DEFINE x == CHOOSE y \in genTodo : \A z \in genTodo : First(y, z)
    <3>1. /\ genTodo' = genTodo \ {x}
          /\ genCaps' = IF x \in published THEN genCaps \cup CapsOf(x[1], x[2]) ELSE genCaps
          /\ UNCHANGED <<genPc, genNodes, template, left>> /\ genPc = "collect"
      BY <2>2 DEF CollectCaps
    <3>2. genTodo # {} /\ genTodo \subseteq Nodes \X Kinds
      BY <2>2 DEF CollectCaps, AccessInv, AccessTypeOK
    <3>3. x \in genTodo
      BY <3>2, FirstExists
    <3> HIDE DEF x
    <3>4. x[1] \in Nodes /\ x[2] \in Kinds /\ x[1] \in genNodes
      BY <3>2, <3>3 DEF AccessInv, Collected
    <3>5. /\ CapsOf(x[1], x[2]) \subseteq Caps
          /\ \A y \in CapsOf(x[1], x[2]) : y[1] = x[1]
          /\ x \in published => CapsOf(x[1], x[2]) \subseteq Available
      <4>1. CapsOf(x[1], x[2]) \subseteq Caps
        BY <3>4 DEF Caps
      <4>2. QED
        BY <4>1 DEF CapsOf, Available
    <3>6. Collected'
      BY <1>1, <1>2, <1>4, <3>1, <3>4, <3>5 DEF AccessInv, Collected
    <3>7. QED
      BY <3>1, <3>5, <3>6 DEF AccessInv, AccessTypeOK
  <2>3. CASE WriteTemplate
    <3>1. /\ template' = [nodes |-> {x[1] : x \in genCaps}, caps |-> genCaps]
          /\ UNCHANGED <<genTodo, genNodes, genCaps, left>> /\ genPc' = "done"
      BY <2>3 DEF WriteTemplate
    <3>2. genCaps \in SUBSET Caps /\ {x[1] : x \in genCaps} \subseteq Nodes
      BY CapsNodes DEF AccessInv, AccessTypeOK
    <3>3. template' \in Wants
      BY <3>1, <3>2 DEF Wants
    <3>4. Collected'
      BY <1>1, <1>2, <1>4, <3>1 DEF AccessInv, Collected
    <3>5. QED
      BY <3>1, <3>3, <3>4 DEF AccessInv, AccessTypeOK
  <2>4. QED
    BY <2>1, <2>2, <2>3 DEF Generate
<1>6. AccessTypeOK'
  BY <1>1, <1>4, <1>5 DEF AccessInv, AccessTypeOK
<1>7. TemplateFixed' /\ KnownApps'
  BY <1>1, <1>4 DEF AccessInv, TemplateFixed, KnownApps, Active, AppOf, HasTemplate
\* No request for the generated application is there yet.
<1>8. serverPc # "recv" => App' = App /\ WantOf(App)' = WantOf(App)
  <2>1. SUFFICES ASSUME serverPc # "recv"
                 PROVE  App # Template
    BY <1>1 DEF App, AppOf, WantOf
  <2>2. QED
    BY <1>4, <2>1, ServingType DEF AccessInv, TemplateFixed
<1>9. LooksHeld'
  BY <1>1, <1>2, <1>8 DEF AccessInv, LooksHeld
<1>10. QED
  BY <1>5, <1>6, <1>7, <1>9 DEF AccessInv

LEMMA SwitchInv == AccessInv /\ SwitchStack => AccessInv'
<1> SUFFICES ASSUME AccessInv, SwitchStack
             PROVE  AccessInv'
  OBVIOUS
<1>1. /\ genPc = "done" /\ genPc' = "switched" /\ stack' = ComposeNodes
      /\ members' = {} /\ published' = {} /\ registered' = {} /\ granted' = <<>> /\ left' = Nodes
      /\ serverPc' = "recv" /\ serving' = Nobody /\ todo' = {} /\ met' = {}
      /\ pc' = [c \in Controllers |-> "off"] /\ at' = [c \in Controllers |-> 1]
      /\ inbox' = [c \in Controllers |-> "none"]
      /\ UNCHANGED <<genTodo, genNodes, genCaps, template, kills, restarts, leaves>>
  BY DEF SwitchStack, bounds
<1>2. \A c \in Controllers : 1 \in DOMAIN AppsOf[c]
  <2>1. \A c \in Controllers : Len(AppsOf[c]) \in Nat /\ Len(AppsOf[c]) # 0
    OBVIOUS
  <2>2. QED
    BY <2>1
<1>3. stack' \subseteq Nodes
  BY <1>1 DEF ComposeNodes, AccessInv, AccessTypeOK
<1>4. AccessTypeOK'
  BY <1>1, <1>2, <1>3 DEF AccessInv, AccessTypeOK
<1>5. LooksHeld' /\ TemplateFixed' /\ KnownApps'
  BY <1>1 DEF LooksHeld, TemplateFixed, KnownApps, Active
<1>6. Collected'
  BY <1>1 DEF AccessInv, Collected, AccessTypeOK
<1>7. QED
  BY <1>4, <1>5, <1>6 DEF AccessInv

LEMMA StepInv == AccessInv /\ [Next]_accessVars => AccessInv'
<1> SUFFICES ASSUME AccessInv, [Next]_accessVars
             PROVE  AccessInv'
  OBVIOUS
<1>1. CASE NodeStep
  BY <1>1, NodeInv
<1>2. CASE ServerStep
  BY <1>2, ReceiveInv, ServeInv DEF ServerStep
<1>3. CASE RestartRegister
  BY <1>3, RestartInv
<1>4. CASE \E c \in Controllers : StartController(c) \/ KillController(c)
  BY <1>4, ControllerInv
<1>5. CASE Generate \/ SwitchStack
  BY <1>5, GenerateInv, SwitchInv
<1>6. CASE UNCHANGED accessVars
  <2>1. /\ UNCHANGED <<stack, members, published, registered, granted, serverPc, serving, todo,
                       met, pc, at, inbox, genPc, genTodo, genNodes, genCaps, template, left,
                       kills, restarts, leaves>>
    BY <1>6 DEF accessVars, redis, server, client, generator, bounds
  <2>2. AccessTypeOK'
    BY <2>1 DEF AccessInv, AccessTypeOK
  <2>3. App' = App /\ WantOf(App)' = WantOf(App) /\ Available' = Available
    BY <2>1 DEF App, AppOf, WantOf, Available
  <2>4. LooksHeld' /\ Collected'
    BY <2>1, <2>3 DEF AccessInv, LooksHeld, Collected
  <2>5. TemplateFixed' /\ KnownApps'
    BY <2>1 DEF AccessInv, TemplateFixed, KnownApps, Active, AppOf, HasTemplate
  <2>6. QED
    BY <2>2, <2>4, <2>5 DEF AccessInv
<1>7. QED
  BY <1>1, <1>2, <1>3, <1>4, <1>5, <1>6 DEF Next

LEMMA Invariance == AccessSpec => []AccessInv
BY InitInv, StepInv, PTL DEF AccessSpec

-----------------------------------------------------------------------------
\* Every variable keeps its type.
THEOREM TypeCorrect == AccessSpec => []AccessTypeOK
<1>1. AccessInv => AccessTypeOK
  BY DEF AccessInv
<1>2. QED
  BY <1>1, Invariance, PTL

\* What is granted was there when the request was received: the nodes, which
\* may have been removed since, and what they have published.
LEMMA GrantStep ==
  AccessInv /\ [Next]_accessVars =>
    [\A a \in DOMAIN granted' :
       (a \notin DOMAIN granted \/ granted'[a] # granted[a]) =>
          granted'[a].nodes \subseteq met /\ granted'[a].caps \subseteq Available]_accessVars
<1> SUFFICES ASSUME AccessInv, Next, NEW a \in DOMAIN granted',
                    a \notin DOMAIN granted \/ granted'[a] # granted[a]
             PROVE  granted'[a].nodes \subseteq met /\ granted'[a].caps \subseteq Available
  OBVIOUS
<1>1. CASE StoreActions
  <2>1. WantOf(App).nodes \subseteq met /\ WantOf(App).caps \subseteq Available
    BY <1>1 DEF StoreActions, AccessInv, LooksHeld
  <2>2. a = App /\ granted'[a] = WantOf(App)
    BY <1>1 DEF StoreActions
  <2>3. QED
    BY <2>1, <2>2
<1>2. CASE SwitchStack
  BY <1>2 DEF SwitchStack
<1>3. CASE granted' = granted
  BY <1>3
<1>4. ~StoreActions /\ ~SwitchStack => granted' = granted
  BY DEF Next, NodeStep, ServerStep, Serve, RegisterAiApp, CheckApp, CheckNode, CheckCaps,
         ReceiveRequest, RestartRegister, StartController, KillController, Generate, redis
<1>5. QED
  BY <1>1, <1>2, <1>3, <1>4

\* An application is granted only nodes that were registered together.
THEOREM GrantsTogether == AccessSpec => GrantedTogether
BY GrantStep, Invariance, PTL DEF AccessSpec, GrantedTogether

\* What the generator wrote is refused only for want of a node that has left.
LEMMA RefusalStep ==
  AccessInv /\ [Next]_accessVars =>
    [\A c \in Controllers :
       Refused(c) /\ kills' = kills /\ genPc' = genPc /\ AppOf(c) = Template
         => template.nodes \cap left # {}]_accessVars
<1> SUFFICES ASSUME AccessInv, Next, NEW c \in Controllers,
                    Refused(c), kills' = kills, genPc' = genPc, AppOf(c) = Template
             PROVE  template.nodes \cap left # {}
  OBVIOUS
<1>1. /\ serverPc # "recv" /\ serving[1] = c /\ pc[c] = "request" /\ pc'[c] = "off"
      /\ App = Template /\ WantOf(App) = template /\ App \in registered
  BY DEF Refused, App, AccessInv, KnownApps, WantOf
<1>2. /\ template = [nodes |-> {x[1] : x \in genCaps}, caps |-> genCaps]
      /\ template.nodes = {x[1] : x \in genCaps} /\ template.caps = genCaps
  <2>1. genPc \in {"done", "switched"}
    BY <1>1, ServingType DEF AccessInv, TemplateFixed
  <2>2. QED
    BY <2>1 DEF AccessInv, Collected
\* Only an answer to the request in hand ends a controller that is not killed.
<1>3. Serve
  <2>1. ~SwitchStack
    BY DEF SwitchStack
  <2>2. ~NodeStep /\ ~Generate /\ ~RestartRegister
    BY <1>1 DEF NodeStep, Generate, RestartRegister, client
  <2>3. \A d \in Controllers : ~StartController(d) /\ ~KillController(d) /\ ~ReceiveRequest(d)
    BY <1>1 DEF StartController, KillController, ReceiveRequest, AccessInv, AccessTypeOK
  <2>4. QED
    BY <2>1, <2>2, <2>3 DEF Next, ServerStep
<1>4. \/ serverPc = "nodes" /\ \E n \in todo : n \notin members
      \/ ~(template.caps \subseteq Available)
  <2>1. ~UNCHANGED client /\ ~Reply(c, TRUE)
    BY <1>1 DEF client, Reply, AfterReply, AccessInv, AccessTypeOK
  <2>2. CASE RegisterAiApp \/ StoreActions \/ CheckApp
    BY <1>1, <2>1, <2>2 DEF RegisterAiApp, StoreActions, CheckApp
  <2>3. CASE CheckNode
    BY <1>1, <2>1, <2>3 DEF CheckNode
  <2>4. CASE CheckCaps
    <3>1. {x[1] : x \in template.caps} \subseteq template.nodes
      BY <1>2
    <3>2. QED
      BY <1>1, <2>1, <2>4, <3>1 DEF CheckCaps
  <2>5. QED
    BY <1>3, <2>2, <2>3, <2>4 DEF Serve
<1>5. CASE serverPc = "nodes" /\ \E n \in todo : n \notin members
  <2>1. PICK n \in todo : n \notin members
    BY <1>5
  <2>2. n \in template.nodes
    BY <1>1, <1>5, <2>1 DEF AccessInv, LooksHeld
  <2>3. n \in left
    BY <1>2, <2>1, <2>2 DEF AccessInv, Collected
  <2>4. QED
    BY <2>2, <2>3
<1>6. CASE ~(template.caps \subseteq Available)
  <2>1. PICK x \in genCaps : x \notin Available
    BY <1>2, <1>6
  <2>2. x[1] \in left
    <3>1. genPc \in {"done", "switched"}
      BY <1>1, ServingType DEF AccessInv, TemplateFixed
    <3>2. QED
      BY <2>1, <3>1 DEF AccessInv, Collected
  <2>3. x[1] \in template.nodes
    BY <1>2
  <2>4. QED
    BY <2>2, <2>3
<1>7. QED
  BY <1>4, <1>5, <1>6

\* An application as the generator wrote it is granted unless a node has left,
\* or is not back in the stack it wrote.
THEOREM TemplateGetsIn == AccessSpec => CollectedGetsIn
BY RefusalStep, Invariance, PTL DEF AccessSpec, CollectedGetsIn
=============================================================================
