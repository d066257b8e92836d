--------------------------- MODULE Startup_proofs ---------------------------
(***************************************************************************)
(* Proofs about the life of the plugins in Startup, for every file, every  *)
(* environment and every configuration handed to the builder, with each    *)
(* connect and each hook succeeding or failing: what a build took from a   *)
(* slot is what the slot holds in the end, the reports tell the truth, and *)
(* the stop closes in reverse.  Then about the configuration it is all     *)
(* built from, which is what file, environment and defaults ask for, and   *)
(* about the reloads of the watcher.                                       *)
(*                                                                         *)
(* The invariant follows build_all through the list: what it says of a     *)
(* plugin holds once next has passed it, and stays because nothing later   *)
(* in the list disturbs it.                                                *)
(***************************************************************************)
EXTENDS Startup, SequenceTheorems, TLAPS

-----------------------------------------------------------------------------
(* The inductive invariant *)

Passed(p) == Built(p) < next

SlotsFilled ==
  /\ \A t \in Slots : slots[t] # Empty => Wanted(slots[t]) /\ SlotOf(slots[t]) = t
  /\ \A p \in Plugins \ Slotless : Wanted(p) /\ Passed(p) =>
       /\ slots[SlotOf(p)] # Empty
       /\ Built(slots[SlotOf(p)]) >= Built(p)

Wirings ==
  \A u \in DOMAIN Uses : u \in enabled /\ Passed(u) /\ slots[Uses[u]] # Empty =>
    <<u, slots[Uses[u]]>> \in wired

(* The components the readiness route answers for. *)
Probed == {"Cache", "Store", "MessageBus"}

Probes ==
  \A t \in Probed : slots[t] # Empty => slots[t] \in checkers \cup {"cache.memory"}

Connects ==
  /\ required \subseteq enabled
  /\ stage \in {"building", "built"} =>
       \A p \in required : Passed(p) => p \in connected

(* The hooks lie in the order of the list, below those that have run. *)
HookOrder ==
  /\ \A i \in DOMAIN hooks : Passed(hooks[i])
  /\ \A i, j \in DOMAIN hooks : i < j => Built(hooks[i]) < Built(hooks[j])
  /\ \A i, j \in DOMAIN closed : i < j => Built(closed[i]) > Built(closed[j])
  /\ \A i \in DOMAIN hooks, j \in DOMAIN closed : Built(hooks[i]) < Built(closed[j])
  /\ closed # << >> => stage \in {"stopping", "stopped"}

(* Every connection that is open has its hook, until shutdown_all gives up. *)
HookCover ==
  /\ stage \in {"configuring", "building", "built", "stopping"} =>
       \A p \in connected \cap Hooked : \E i \in DOMAIN hooks : hooks[i] = p
  /\ stage = "stopped" =>
       \A p \in connected \cap Hooked : failed # Empty /\ Built(p) =< Built(failed)

Fresh ==
  /\ stage = "configuring" =>
       next = 1 /\ (\A t \in Slots : slots[t] = Empty) /\ required = {}
  /\ stage = "built" => next > Len(BuiltinPlugins)

StartInv ==
  /\ PluginTypeOK /\ SlotsFilled /\ Wirings /\ Probes /\ Connects
  /\ HookOrder /\ HookCover /\ Fresh

-----------------------------------------------------------------------------
(* The list *)

LEMMA ListLength == DOMAIN BuiltinPlugins = 1 .. 30 /\ Len(BuiltinPlugins) = 30
BY DEF BuiltinPlugins

LEMMA ListItems ==
  /\ BuiltinPlugins[1] = "codec.json" /\ BuiltinPlugins[2] = "codec.msgpack"
  /\ BuiltinPlugins[3] = "codec.protobuf" /\ BuiltinPlugins[4] = "cache.memory"
  /\ BuiltinPlugins[5] = "cache.redis" /\ BuiltinPlugins[6] = "cache.multilevel"
  /\ BuiltinPlugins[7] = "mq.memory" /\ BuiltinPlugins[8] = "mq.nats"
  /\ BuiltinPlugins[9] = "mq.redis_streams" /\ BuiltinPlugins[10] = "store.postgres"
  /\ BuiltinPlugins[11] = "store.mysql" /\ BuiltinPlugins[12] = "store.sqlite"
  /\ BuiltinPlugins[13] = "ratelimit.memory" /\ BuiltinPlugins[14] = "ratelimit.redis"
  /\ BuiltinPlugins[15] = "crypto.env_key" /\ BuiltinPlugins[16] = "crypto.file_key"
  /\ BuiltinPlugins[17] = "crypto.rotating_key" /\ BuiltinPlugins[18] = "crypto.aesgcm"
  /\ BuiltinPlugins[19] = "script.wasm" /\ BuiltinPlugins[20] = "script.python"
  /\ BuiltinPlugins[21] = "script.js" /\ BuiltinPlugins[22] = "net.rpc"
  /\ BuiltinPlugins[23] = "net.trpc" /\ BuiltinPlugins[24] = "file_store.local"
  /\ BuiltinPlugins[25] = "http_client" /\ BuiltinPlugins[26] = "lock"
  /\ BuiltinPlugins[27] = "timer.simple" /\ BuiltinPlugins[28] = "audit.file"
  /\ BuiltinPlugins[29] = "i18n" /\ BuiltinPlugins[30] = "config_watch"
BY DEF BuiltinPlugins

(* Every plugin has its one place. *)
LEMMA Places ==
  /\ \A i \in 1 .. 30 : BuiltinPlugins[i] \in Plugins /\ Built(BuiltinPlugins[i]) = i
  /\ \A p \in Plugins : Built(p) \in 1 .. 30 /\ BuiltinPlugins[Built(p)] = p
<1>1. \A i, j \in 1 .. 30 : BuiltinPlugins[i] = BuiltinPlugins[j] => i = j
  BY ListItems
<1>2. \A i \in 1 .. 30 : BuiltinPlugins[i] \in Plugins
  BY ListLength DEF Plugins
<1>3. \A p \in Plugins : Built(p) \in 1 .. 30 /\ BuiltinPlugins[Built(p)] = p
  BY ListLength DEF Plugins, Built
<1>. QED  BY <1>1, <1>2, <1>3

LEMMA AllPlugins ==
  /\ AlwaysOn \subseteq Plugins /\ MqBackends \subseteq Plugins /\ Hooked \subseteq Plugins
  /\ Stores \subseteq Hooked /\ DOMAIN Uses \subseteq Plugins
  /\ {"cache.memory", "cache.redis", "cache.multilevel"} \subseteq Plugins
<1>1. \A i \in 1 .. 30 : BuiltinPlugins[i] \in Plugins
  BY Places
<1>2. AlwaysOn \subseteq Plugins /\ MqBackends \subseteq Plugins
  BY <1>1, ListItems DEF AlwaysOn, MqBackends
<1>3. Hooked \subseteq Plugins /\ Stores \subseteq Hooked
  BY <1>1, ListItems DEF Hooked, Requirable, Stores
<1>4. DOMAIN Uses \subseteq Plugins
  BY <1>1, ListItems DEF Uses
<1>5. {"cache.memory", "cache.redis", "cache.multilevel"} \subseteq Plugins
  BY <1>1, ListItems
<1>. QED  BY <1>2, <1>3, <1>4, <1>5

(* "Ordering matters": nothing at or behind a plugin fills the slot it looks *)
(* into.                                                                     *)
LEMMA ListOrder ==
  ASSUME NEW u \in DOMAIN Uses, NEW p \in Plugins, Built(u) <= Built(p)
  PROVE  SlotOf(p) # Uses[u]
<1>1. /\ Built("crypto.env_key") = 15 /\ Built("crypto.file_key") = 16
      /\ Built("crypto.aesgcm") = 18 /\ Built("lock") = 26 /\ Built("timer.simple") = 27
      /\ Built("audit.file") = 28 /\ Built("config_watch") = 30
  BY Places, ListItems
<1>2. /\ Uses["crypto.aesgcm"] = "KeyProvider" /\ Uses["timer.simple"] = "lock"
      /\ Uses["config_watch"] = "audit.file"
      /\ u \in {"crypto.aesgcm", "timer.simple", "config_watch"}
  BY DEF Uses
<1>3. /\ SlotOf(p) = "KeyProvider" => p \in {"crypto.env_key", "crypto.file_key", "KeyProvider"}
      /\ SlotOf(p) = "lock" => p = "lock"
      /\ SlotOf(p) = "audit.file" => p = "audit.file"
  BY DEF SlotOf, MqBackends
<1>4. p # "KeyProvider"
  <2>1. \A i \in 1 .. 30 : BuiltinPlugins[i] # "KeyProvider"
    BY ListItems
  <2>. QED  BY <2>1, Places
<1>. QED  BY <1>1, <1>2, <1>3, <1>4


LEMMA SlotFacts ==
  /\ \A p \in Plugins \ Slotless : SlotOf(p) \in Slots
  /\ \A u \in DOMAIN Uses : Uses[u] \in Slots
  /\ Probed \subseteq Slots
  /\ \A p \in Plugins : SlotOf(p) \in Probed => CheckerOf(p) = {p} \/ p = "cache.memory"
<1>1. \A p \in Plugins \ Slotless : SlotOf(p) \in Slots
  BY DEF Slots
<1>2. /\ "crypto.env_key" \in Plugins /\ "lock" \in Plugins /\ "audit.file" \in Plugins
      /\ "cache.memory" \in Plugins /\ "store.mysql" \in Plugins /\ "mq.nats" \in Plugins
  BY Places, ListItems
<1>3. /\ SlotOf("crypto.env_key") = "KeyProvider" /\ SlotOf("lock") = "lock"
      /\ SlotOf("audit.file") = "audit.file" /\ SlotOf("cache.memory") = "Cache"
      /\ SlotOf("store.mysql") = "Store" /\ SlotOf("mq.nats") = "MessageBus"
  BY DEF SlotOf, MqBackends
<1>4. {"KeyProvider", "lock", "audit.file", "Cache", "Store", "MessageBus"} \subseteq Slots
  BY <1>1, <1>2, <1>3 DEF Slotless
<1>5. \A u \in DOMAIN Uses : Uses[u] \in {"KeyProvider", "lock", "audit.file"}
  BY DEF Uses
<1>6. ASSUME NEW p \in Plugins, SlotOf(p) \in Probed
      PROVE  CheckerOf(p) = {p} \/ p = "cache.memory"
  <2>1. p \notin Probed
    <3>1. \A i \in 1 .. 30 : BuiltinPlugins[i] \notin {"Cache", "Store", "MessageBus"}
      BY ListItems
    <3>. QED  BY <3>1, Places DEF Probed
  <2>2. p \in {"cache.memory", "cache.redis", "cache.multilevel"} \cup MqBackends
             \cup {"store.postgres", "store.mysql", "store.sqlite"}
    BY <1>6, <2>1 DEF SlotOf, Probed
  <2>. QED  BY <2>2 DEF CheckerOf, Stores
<1>. QED  BY <1>1, <1>4, <1>5, <1>6 DEF Probed

-----------------------------------------------------------------------------
(* build_all *)

(* next stands in front of the plugin at hand, and passes it. *)
LEMMA AtCurrent ==
  ASSUME PluginTypeOK, next =< Len(BuiltinPlugins), next' = next + 1
  PROVE  /\ Current \in Plugins /\ Built(Current) = next /\ ~ Passed(Current)
         /\ next \in 1 .. 30 /\ next' \in 1 .. (Len(BuiltinPlugins) + 1)
         /\ \A p \in Plugins : Passed(p)' <=> Passed(p) \/ p = Current
         /\ \A p \in Plugins : Passed(p) => Built(p) < Built(Current)
<1>1. next \in 1 .. 30 /\ next' \in 1 .. (Len(BuiltinPlugins) + 1)
  BY ListLength DEF PluginTypeOK
<1>2. Current \in Plugins /\ Built(Current) = next
  BY <1>1, Places DEF Current
<1>3. \A p \in Plugins : Built(p) = next => p = Current
  BY Places DEF Current
<1>4. \A p \in Plugins : Built(p) < next + 1 <=> Built(p) < next \/ p = Current
  <2>1. ASSUME NEW p \in Plugins
        PROVE  Built(p) < next + 1 <=> Built(p) < next \/ p = Current
    <3>1. Built(p) \in 1 .. 30
      BY Places
    <3>2. CASE p = Current
      <4>1. Built(p) = next
        BY <1>2, <3>2
      <4>. QED  BY <1>1, <3>2, <4>1
    <3>3. CASE p # Current
      <4>1. Built(p) # next
        BY <1>3, <3>3
      <4>2. PICK m \in 1 .. 30 : m = Built(p)
        BY <3>1
      <4>3. m # next
        BY <4>1, <4>2
      <4>4. m < next + 1 <=> m < next
        BY <1>1, <4>3
      <4>. QED  BY <3>3, <4>2, <4>4
    <3>. QED  BY <3>2, <3>3
  <2>. QED  BY <2>1
<1>. QED  BY <1>1, <1>2, <1>4, Places DEF Passed

LEMMA SkipCase ==
  ASSUME StartInv, BuildSkipped
  PROVE  StartInv'
<1>1. /\ stage = "building" /\ next =< Len(BuiltinPlugins) /\ ~ Wanted(Current)
      /\ next' = next + 1
      /\ UNCHANGED <<enabled, required, stage, slots, wired, connected, checkers, hooks,
                     closed, failed>>
  BY DEF BuildSkipped
<1>2. PluginTypeOK
  BY DEF StartInv
<1>3. /\ Current \in Plugins /\ next' \in 1 .. (Len(BuiltinPlugins) + 1)
      /\ \A p \in Plugins : Passed(p)' <=> Passed(p) \/ p = Current
  BY <1>1, <1>2, AtCurrent
<1>4. \A p \in Plugins : Wanted(p)' <=> Wanted(p)
  BY <1>1 DEF Wanted
<1>5. PluginTypeOK'
  BY <1>1, <1>2, <1>3 DEF PluginTypeOK
<1>6. SlotsFilled'
  <2>1. \A t \in Slots : slots[t] # Empty => Wanted(slots[t]) /\ SlotOf(slots[t]) = t
    BY DEF StartInv, SlotsFilled
  <2>2. \A p \in Plugins \ Slotless : Wanted(p) /\ Passed(p)' =>
          slots[SlotOf(p)] # Empty /\ Built(slots[SlotOf(p)]) >= Built(p)
    BY <1>1, <1>3 DEF StartInv, SlotsFilled
  <2>3. enabled' = enabled /\ slots' = slots
    BY <1>1
  <2>. QED  BY <2>1, <2>2, <2>3 DEF SlotsFilled, Wanted
<1>7. Wirings'
  <2>1. \A u \in DOMAIN Uses : u \in Plugins /\ (u \in enabled => Wanted(u))
    BY AllPlugins DEF Wanted, Uses
  <2>. QED  BY <1>1, <1>3, <2>1 DEF StartInv, Wirings
<1>8. Probes'
  BY <1>1 DEF StartInv, Probes
<1>9. Connects'
  <2>1. \A p \in required : p \in Plugins /\ Wanted(p)
    BY <1>2, AllPlugins DEF StartInv, Connects, PluginTypeOK, Wanted, Requirable, Stores, Hooked
  <2>. QED  BY <1>1, <1>3, <2>1 DEF StartInv, Connects
<1>10. HookOrder'
  <2>1. \A i \in DOMAIN hooks : hooks[i] \in Plugins
    BY <1>2, AllPlugins DEF PluginTypeOK
  <2>. QED  BY <1>1, <1>3, <2>1 DEF StartInv, HookOrder
<1>11. HookCover' /\ Fresh'
  BY <1>1 DEF StartInv, HookCover, Fresh
<1>. QED  BY <1>5, <1>6, <1>7, <1>8, <1>9, <1>10, <1>11 DEF StartInv

(* A component is registered, connected or not. *)
LEMMA RegisterCase ==
  ASSUME StartInv, stage = "building", next =< Len(BuiltinPlugins), Wanted(Current),
         Register(Current),
         \/ connected' = connected \cup ({Current} \cap Connecting)
         \/ Current \notin required /\ connected' = connected
  PROVE  StartInv'
<1>. DEFINE p == Current
<1>1. /\ next' = next + 1 /\ slots' = Filled(p)
      /\ wired' = IF p \in DOMAIN Uses /\ slots[Uses[p]] # Empty
                    THEN wired \cup {<<p, slots[Uses[p]]>>} ELSE wired
      /\ checkers' = checkers \cup CheckerOf(p)
      /\ hooks' = IF p \in Hooked THEN Append(hooks, p) ELSE hooks
      /\ UNCHANGED <<enabled, required, stage, closed, failed>>
  BY DEF Register
<1>2. PluginTypeOK
  BY DEF StartInv
<1>3. /\ p \in Plugins /\ next' \in 1 .. (Len(BuiltinPlugins) + 1) /\ Built(p) = next
      /\ \A q \in Plugins : Passed(q)' <=> Passed(q) \/ q = p
      /\ \A q \in Plugins : Passed(q) => Built(q) < Built(p)
  BY <1>1, <1>2, AtCurrent
<1>4. p \in enabled /\ \A q \in Plugins : Wanted(q)' <=> Wanted(q)
  BY <1>1 DEF Wanted
<1>. HIDE DEF p
<1>5. /\ slots' \in [Slots -> Plugins \cup {Empty}]
      /\ \A t \in Slots : slots'[t] = slots[t] \/ (t = SlotOf(p) /\ slots'[t] = p)
      /\ p \notin Slotless => slots'[SlotOf(p)] = p
  BY <1>1, <1>2, <1>3, SlotFacts DEF Filled, PluginTypeOK
<1>6. connected \subseteq connected' /\ connected' \subseteq connected \cup ({p} \cap Connecting)
  BY DEF p
<1>7. PluginTypeOK'
  <2>1. checkers' \subseteq Plugins
    BY <1>1, <1>2, <1>3 DEF PluginTypeOK, CheckerOf
  <2>2. wired' \subseteq (DOMAIN Uses) \X Plugins
    BY <1>1, <1>2, SlotFacts DEF PluginTypeOK
  <2>3. hooks' \in Seq(Hooked)
    BY <1>1, <1>2 DEF PluginTypeOK
  <2>. QED  BY <1>1, <1>2, <1>3, <1>5, <1>6, <2>1, <2>2, <2>3 DEF PluginTypeOK
<1>8. SlotsFilled'
  <2>1. \A t \in Slots : slots'[t] # Empty => Wanted(slots'[t]) /\ SlotOf(slots'[t]) = t
    <3>1. \A t \in Slots : slots[t] # Empty => Wanted(slots[t]) /\ SlotOf(slots[t]) = t
      BY DEF StartInv, SlotsFilled
    <3>2. Wanted(p)
      BY DEF p
    <3>. QED  BY <1>5, <3>1, <3>2
  <2>2. ASSUME NEW q \in Plugins \ Slotless, Wanted(q), Passed(q) \/ q = p
        PROVE  slots'[SlotOf(q)] # Empty /\ Built(slots'[SlotOf(q)]) >= Built(q)
    <3>1. SlotOf(q) \in Slots /\ p # Empty
      BY <1>3, SlotFacts, EmptyAssumption
    <3>2. PICK m \in 1 .. 30, n \in 1 .. 30 : m = Built(p) /\ n = Built(q)
      BY <1>3, Places
    <3>3. CASE q = p
      <4>1. slots'[SlotOf(q)] = p /\ n = m /\ m >= m
        BY <1>5, <3>2, <3>3
      <4>. QED  BY <3>1, <3>2, <3>3, <4>1
    <3>4. CASE Passed(q)
      <4>1. /\ slots[SlotOf(q)] # Empty /\ Built(slots[SlotOf(q)]) >= Built(q)
            /\ Built(q) < Built(p)
        BY <1>3, <2>2, <3>4 DEF StartInv, SlotsFilled
      <4>2. CASE slots'[SlotOf(q)] = slots[SlotOf(q)]
        BY <4>1, <4>2
      <4>3. CASE slots'[SlotOf(q)] = p
        <5>1. n < m /\ n <= m
          BY <3>2, <4>1
        <5>. QED  BY <3>1, <3>2, <4>3, <5>1
      <4>. QED  BY <1>5, <3>1, <4>2, <4>3
    <3>. QED  BY <2>2, <3>3, <3>4
  <2>3. \A q \in Plugins \ Slotless : Wanted(q) /\ Passed(q)' =>
          slots'[SlotOf(q)] # Empty /\ Built(slots'[SlotOf(q)]) >= Built(q)
    BY <1>3, <2>2
  <2>4. enabled' = enabled
    BY <1>1
  <2>. QED  BY <2>1, <2>3, <2>4 DEF SlotsFilled, Wanted
<1>9. Wirings'
  <2>1. ASSUME NEW u \in DOMAIN Uses, u \in enabled, Passed(u) \/ u = p,
               slots'[Uses[u]] # Empty
        PROVE  <<u, slots'[Uses[u]]>> \in wired'
    <3>1. Built(u) <= Built(p) /\ u \in Plugins /\ Uses[u] \in Slots
      <4>1. u \in Plugins /\ Uses[u] \in Slots
        BY AllPlugins, SlotFacts
      <4>2. PICK m \in 1 .. 30, n \in 1 .. 30 : m = Built(u) /\ n = Built(p)
        BY <1>3, <4>1, Places
      <4>3. m = n \/ m < n
        BY <1>3, <2>1, <4>1, <4>2
      <4>4. m <= n
        BY <4>3
      <4>. QED  BY <4>1, <4>2, <4>4
    <3>2. slots'[Uses[u]] = slots[Uses[u]]
      BY <1>3, <1>5, <3>1, ListOrder
    <3>3. CASE u = p
      BY <1>1, <2>1, <3>2, <3>3
    <3>4. CASE Passed(u)
      BY <1>1, <2>1, <3>2, <3>4 DEF StartInv, Wirings
    <3>. QED  BY <2>1, <3>3, <3>4
  <2>2. \A u \in DOMAIN Uses : u \in Plugins
    BY AllPlugins
  <2>. QED  BY <1>1, <1>3, <2>1, <2>2 DEF Wirings
<1>10. Probes'
  <2>1. ASSUME NEW t \in Probed, slots'[t] # Empty
        PROVE  slots'[t] \in checkers' \cup {"cache.memory"}
    <3>1. t \in Slots
      BY SlotFacts
    <3>2. CASE slots'[t] = slots[t]
      BY <1>1, <2>1, <3>2 DEF StartInv, Probes
    <3>3. CASE t = SlotOf(p) /\ slots'[t] = p
      BY <1>1, <1>3, <3>3, SlotFacts
    <3>. QED  BY <1>5, <3>1, <3>2, <3>3
  <2>. QED  BY <2>1 DEF Probes
<1>11. Connects'
  <2>1. \A q \in required : q \in Plugins /\ q \in Connecting
    BY <1>2, AllPlugins DEF PluginTypeOK, Hooked, Connecting
  <2>2. p \in required => p \in connected'
    BY <2>1 DEF p
  <2>. QED  BY <1>1, <1>3, <1>6, <2>1, <2>2 DEF StartInv, Connects
<1>12. HookOrder' /\ HookCover'
  <2>1. /\ hooks \in Seq(Hooked) /\ closed = << >> /\ closed' = << >>
        /\ \A i \in DOMAIN hooks : hooks[i] \in Plugins /\ Passed(hooks[i])
        /\ \A i, j \in DOMAIN hooks : i < j => Built(hooks[i]) < Built(hooks[j])
        /\ \A q \in connected \cap Hooked : \E i \in DOMAIN hooks : hooks[i] = q
        /\ stage' = "building"
    BY <1>1, <1>2, AllPlugins DEF StartInv, HookOrder, HookCover, PluginTypeOK
  <2>2. CASE p \notin Hooked
    <3>1. hooks' = hooks /\ connected' \cap Hooked = connected \cap Hooked
      BY <1>1, <1>6, <2>2
    <3>2. HookOrder'
      BY <1>3, <2>1, <3>1 DEF HookOrder
    <3>. QED  BY <2>1, <3>1, <3>2 DEF HookCover
  <2>3. CASE p \in Hooked
    <3>1. /\ hooks' = Append(hooks, p) /\ DOMAIN hooks' = 1 .. (Len(hooks) + 1)
          /\ DOMAIN hooks = 1 .. Len(hooks) /\ Len(hooks) \in Nat
          /\ \A i \in 1 .. Len(hooks) : hooks'[i] = hooks[i]
          /\ hooks'[Len(hooks) + 1] = p
      BY <1>1, <2>1, <2>3
    <3>2. \A i \in DOMAIN hooks' : hooks'[i] \in Plugins /\ Built(hooks'[i]) < next'
      <4>1. ASSUME NEW i \in DOMAIN hooks'
            PROVE  hooks'[i] \in Plugins /\ (Passed(hooks'[i]) \/ hooks'[i] = p)
        <5>1. i \in 1 .. Len(hooks) \/ i = Len(hooks) + 1
          BY <3>1
        <5>. QED  BY <1>3, <2>1, <3>1, <5>1
      <4>. QED  BY <1>3, <4>1 DEF Passed
    <3>3. \A i, j \in DOMAIN hooks' : i < j => Built(hooks'[i]) < Built(hooks'[j])
      <4>1. ASSUME NEW i \in DOMAIN hooks', NEW j \in DOMAIN hooks', i < j
            PROVE  Built(hooks'[i]) < Built(hooks'[j])
        <5>1. i \in 1 .. Len(hooks) /\ (j \in 1 .. Len(hooks) \/ j = Len(hooks) + 1)
          BY <3>1, <4>1
        <5>. QED  BY <1>3, <2>1, <3>1, <4>1, <5>1
      <4>. QED  BY <4>1
    <3>4. HookOrder'
      <4>1. \A i \in DOMAIN hooks' : Passed(hooks[i])'
        BY <3>2 DEF Passed
      <4>2. DOMAIN closed' = {}
        BY <2>1
      <4>. QED  BY <2>1, <3>3, <4>1, <4>2 DEF HookOrder
    <3>5. \A q \in connected' \cap Hooked : \E i \in DOMAIN hooks' : hooks'[i] = q
      <4>1. ASSUME NEW q \in connected' \cap Hooked
            PROVE  \E i \in DOMAIN hooks' : hooks'[i] = q
        <5>1. CASE q = p
          BY <3>1, <5>1
        <5>2. CASE q # p
          <6>1. PICK i \in DOMAIN hooks : hooks[i] = q
            BY <1>6, <2>1, <5>2
          <6>. QED  BY <3>1, <6>1
        <5>. QED  BY <5>1, <5>2
      <4>. QED  BY <4>1
    <3>. QED  BY <2>1, <3>4, <3>5 DEF HookCover
  <2>. QED  BY <2>2, <2>3
<1>13. Fresh'
  BY <1>1 DEF Fresh
<1>. QED  BY <1>7, <1>8, <1>9, <1>10, <1>11, <1>12, <1>13 DEF StartInv

(* Only the stage changes, and hooks are dropped. *)
LEMMA StageCase ==
  ASSUME StartInv,
         \/ BuildFails \/ BuildDone \/ ShutdownBegins \/ HookFails \/ ShutdownEnds
  PROVE  StartInv'
<1>1. /\ UNCHANGED <<enabled, required, next, slots, wired, connected, checkers, closed>>
      /\ stage \in {"building", "built", "stopping"}
      /\ stage' \in {"failed", "built", "stopping", "stopped"}
      /\ hooks' = hooks \/ hooks' = << >>
  BY DEF BuildFails, BuildDone, ShutdownBegins, HookFails, ShutdownEnds
<1>2. \A p : Passed(p)' <=> Passed(p)
  BY <1>1 DEF Passed
<1>3. \A p : Wanted(p)' <=> Wanted(p)
  BY <1>1 DEF Wanted
<1>4. PluginTypeOK'
  <2>1. failed' \in Stores \cup {Empty}
    BY DEF StartInv, PluginTypeOK, BuildFails, BuildDone, ShutdownBegins, HookFails, ShutdownEnds
  <2>2. hooks' \in Seq(Hooked)
    <3>1. << >> \in Seq(Hooked)
      OBVIOUS
    <3>2. hooks \in Seq(Hooked)
      BY DEF StartInv, PluginTypeOK
    <3>. QED  BY <1>1, <3>1, <3>2
  <2>. QED  BY <1>1, <2>1, <2>2 DEF StartInv, PluginTypeOK
<1>5. SlotsFilled' /\ Wirings' /\ Probes'
  BY <1>1, <1>2, <1>3 DEF StartInv, SlotsFilled, Wirings, Probes
<1>6. Connects'
  <2>1. stage' \in {"building", "built"} => stage \in {"building", "built"}
    BY <1>1 DEF BuildFails, BuildDone, ShutdownBegins, HookFails, ShutdownEnds
  <2>. QED  BY <1>1, <1>2, <2>1 DEF StartInv, Connects
<1>7. HookOrder'
  <2>1. closed # << >> => stage' \in {"stopping", "stopped"}
    BY DEF StartInv, HookOrder, BuildFails, BuildDone, ShutdownBegins, HookFails, ShutdownEnds
  <2>2. CASE hooks' = hooks
    BY <1>1, <1>2, <2>1, <2>2 DEF StartInv, HookOrder
  <2>3. CASE hooks' = << >>
    <3>1. DOMAIN hooks' = {}
      BY <2>3
    <3>. QED  BY <1>1, <2>1, <3>1 DEF StartInv, HookOrder
  <2>. QED  BY <1>1, <2>2, <2>3
<1>8. HookCover'
  <2>1. CASE BuildFails
    BY <2>1 DEF BuildFails, HookCover
  <2>2. CASE BuildDone \/ ShutdownBegins
    BY <2>2 DEF BuildDone, ShutdownBegins, StartInv, HookCover
  <2>3. CASE HookFails
    <3>. DEFINE last == hooks[Len(hooks)]
    <3>1. /\ stage' = "stopped" /\ failed' = last /\ last \in Stores /\ connected' = connected
          /\ stage = "stopping" /\ hooks \in Seq(Hooked) /\ hooks # << >>
      BY <2>3 DEF HookFails, StartInv, PluginTypeOK
    <3>2. /\ DOMAIN hooks = 1 .. Len(hooks) /\ Len(hooks) \in Nat /\ Len(hooks) \in DOMAIN hooks
      BY <3>1
    <3>3. ASSUME NEW p \in connected \cap Hooked
          PROVE  Built(p) =< Built(last)
      <4>1. PICK i \in DOMAIN hooks : hooks[i] = p
        BY <3>1 DEF StartInv, HookCover
      <4>2. i <= Len(hooks)
        BY <3>2
      <4>3. PICK m \in 1 .. 30, n \in 1 .. 30 : m = Built(p) /\ n = Built(last)
        BY <3>1, AllPlugins, Places
      <4>4. m = n \/ m < n
        BY <3>2, <4>1, <4>2, <4>3 DEF StartInv, HookOrder
      <4>5. m <= n
        BY <4>4
      <4>. QED  BY <4>3, <4>5
    <3>4. last # Empty
      BY <3>1, AllPlugins, EmptyAssumption
    <3>. QED  BY <3>1, <3>3, <3>4 DEF HookCover
  <2>4. CASE ShutdownEnds
    <3>1. DOMAIN hooks = {} /\ stage = "stopping" /\ stage' = "stopped" /\ connected' = connected
      BY <2>4 DEF ShutdownEnds
    <3>. QED  BY <3>1 DEF StartInv, HookCover
  <2>. QED  BY <2>1, <2>2, <2>3, <2>4
<1>9. Fresh'
  BY <1>1 DEF StartInv, Fresh, BuildFails, BuildDone, ShutdownBegins, HookFails, ShutdownEnds
<1>. QED  BY <1>4, <1>5, <1>6, <1>7, <1>8, <1>9 DEF StartInv

(* The last hook is that of the latest component still open. *)
LEMMA CloseCase ==
  ASSUME StartInv, HookCloses
  PROVE  StartInv'
<1>. DEFINE n == Len(hooks)
            last == hooks[n]
            m == Len(closed)
<1>1. /\ stage = "stopping" /\ hooks # << >> /\ closed' = Append(closed, last)
      /\ connected' = connected \ {last} /\ hooks' = SubSeq(hooks, 1, n - 1)
      /\ UNCHANGED <<enabled, required, stage, next, slots, wired, checkers, failed>>
      /\ hooks \in Seq(Hooked) /\ closed \in Seq(Hooked)
  BY DEF HookCloses, StartInv, PluginTypeOK
<1>2. /\ n \in Nat \ {0} /\ DOMAIN hooks = 1 .. n /\ last \in Hooked
      /\ m \in Nat /\ DOMAIN closed = 1 .. m
  BY <1>1
<1>3. /\ hooks' \in Seq(Hooked) /\ DOMAIN hooks' = 1 .. (n - 1)
      /\ \A i \in 1 .. (n - 1) : hooks'[i] = hooks[i]
  BY <1>1, <1>2
<1>4. /\ closed' \in Seq(Hooked) /\ DOMAIN closed' = 1 .. (m + 1) /\ closed'[m + 1] = last
      /\ \A i \in 1 .. m : closed'[i] = closed[i]
  BY <1>1, <1>2
<1>. HIDE DEF n, last, m
<1>5. \A p : (Passed(p)' <=> Passed(p)) /\ (Wanted(p)' <=> Wanted(p))
  BY <1>1 DEF Passed, Wanted
<1>6. PluginTypeOK'
  BY <1>1, <1>3, <1>4 DEF StartInv, PluginTypeOK
<1>7. SlotsFilled' /\ Wirings' /\ Probes' /\ Connects' /\ Fresh'
  BY <1>1, <1>5 DEF StartInv, SlotsFilled, Wirings, Probes, Connects, Fresh
<1>8. /\ \A i, j \in 1 .. n : i < j => Built(hooks[i]) < Built(hooks[j])
      /\ \A i, j \in 1 .. m : i < j => Built(closed[i]) > Built(closed[j])
      /\ \A i \in 1 .. n, j \in 1 .. m : Built(hooks[i]) < Built(closed[j])
      /\ \A i \in 1 .. n : Passed(hooks[i])
      /\ hooks[n] = last
  BY <1>2 DEF StartInv, HookOrder, last
<1>9. HookOrder'
  <2>1. \A i \in DOMAIN hooks' : Passed(hooks[i])'
    <3>1. \A i \in 1 .. (n - 1) : i \in 1 .. n
      BY <1>2
    <3>. QED  BY <1>1, <1>3, <1>8, <3>1 DEF Passed
  <2>2. \A i, j \in DOMAIN hooks' : i < j => Built(hooks'[i]) < Built(hooks'[j])
    <3>1. \A i \in 1 .. (n - 1) : i \in 1 .. n
      BY <1>2
    <3>. QED  BY <1>3, <1>8, <3>1
  <2>3. ASSUME NEW i \in DOMAIN closed', NEW j \in DOMAIN closed', i < j
        PROVE  Built(closed'[i]) > Built(closed'[j])
    <3>1. i \in 1 .. m /\ (j \in 1 .. m \/ j = m + 1)
      BY <1>2, <1>4, <2>3
    <3>2. CASE j \in 1 .. m
      BY <1>4, <1>8, <2>3, <3>1, <3>2
    <3>3. CASE j = m + 1
      <4>1. n \in 1 .. n /\ closed'[j] = hooks[n] /\ closed'[i] = closed[i]
        BY <1>2, <1>4, <1>8, <3>1, <3>3
      <4>2. Built(hooks[n]) < Built(closed[i])
        BY <1>8, <3>1, <4>1
      <4>. QED  BY <4>1, <4>2
    <3>. QED  BY <3>1, <3>2, <3>3
  <2>4. ASSUME NEW i \in DOMAIN hooks', NEW j \in DOMAIN closed'
        PROVE  Built(hooks'[i]) < Built(closed'[j])
    <3>1. /\ i \in 1 .. n /\ n \in 1 .. n /\ i < n /\ hooks'[i] = hooks[i]
          /\ (j \in 1 .. m \/ j = m + 1)
      BY <1>2, <1>3, <1>4
    <3>. QED  BY <1>4, <1>8, <3>1
  <2>. QED  BY <1>1, <2>1, <2>2, <2>3, <2>4 DEF HookOrder
<1>10. HookCover'
  <2>1. ASSUME NEW p \in connected' \cap Hooked
        PROVE  \E i \in DOMAIN hooks' : hooks'[i] = p
    <3>1. PICK i \in 1 .. n : hooks[i] = p
      BY <1>1, <1>2 DEF StartInv, HookCover
    <3>2. i # n
      BY <1>1, <1>8, <3>1
    <3>3. i \in 1 .. (n - 1)
      BY <1>2, <3>2
    <3>. QED  BY <1>3, <3>1, <3>3
  <2>. QED  BY <1>1, <2>1 DEF HookCover
<1>. QED  BY <1>6, <1>7, <1>9, <1>10 DEF StartInv

(* A configuration gives the flags; nothing is built yet. *)
LEMMA BeginCase ==
  ASSUME StartInv, NEW on \in SUBSET Plugins, NEW needed \in SUBSET (on \cap Requirable),
         BuildBegins(on, needed)
  PROVE  StartInv'
<1>1. /\ stage = "configuring" /\ enabled' = on /\ required' = needed /\ stage' = "building"
      /\ UNCHANGED <<next, slots, wired, connected, checkers, hooks, closed, failed>>
  BY DEF BuildBegins
<1>2. next = 1 /\ \A t \in Slots : slots[t] = Empty
  BY <1>1 DEF StartInv, Fresh
<1>3. \A p \in Plugins : ~ Passed(p)'
  BY <1>1, <1>2, Places DEF Passed
<1>4. PluginTypeOK'
  BY <1>1 DEF StartInv, PluginTypeOK
<1>5. SlotsFilled' /\ Wirings' /\ Probes'
  BY <1>1, <1>2, <1>3, AllPlugins, SlotFacts DEF SlotsFilled, Wirings, Probes
<1>6. Connects'
  BY <1>1, <1>3 DEF Connects
<1>7. HookOrder' /\ HookCover' /\ Fresh'
  <2>1. \A p : Passed(p)' <=> Passed(p)
    BY <1>1 DEF Passed
  <2>. QED  BY <1>1, <2>1 DEF StartInv, HookOrder, HookCover, Fresh
<1>. QED  BY <1>4, <1>5, <1>6, <1>7 DEF StartInv

LEMMA BuildCases ==
  ASSUME StartInv, BuildStep
  PROVE  StartInv'
<1>1. PluginTypeOK
  BY DEF StartInv
<1>2. CASE BuildSucceeds
  <2>1. "lock" \notin required
    BY <1>1 DEF PluginTypeOK, Requirable, Stores
  <2>. QED  BY <1>2, <2>1, RegisterCase DEF BuildSucceeds
<1>3. CASE BuildDegraded
  <2>1. Current \notin required
    BY <1>1, <1>3 DEF BuildDegraded, Tolerates, PluginTypeOK, Requirable, Stores
  <2>. QED  BY <1>3, <2>1, RegisterCase DEF BuildDegraded
<1>. QED  BY <1>2, <1>3, SkipCase, StageCase DEF BuildStep

LEMMA ShutdownCases ==
  ASSUME StartInv, ShutdownStep
  PROVE  StartInv'
BY StageCase, CloseCase DEF ShutdownStep

-----------------------------------------------------------------------------
(* The theorems *)

LEMMA InitInv == StartInit => StartInv
<1>. SUFFICES ASSUME PluginInit PROVE StartInv
  BY DEF StartInit
<1>1. PluginTypeOK
  BY ListLength DEF PluginInit, PluginTypeOK
<1>2. SlotsFilled /\ Wirings /\ Probes /\ Connects
  <2>1. \A p \in Plugins : ~ Wanted(p)
    BY DEF PluginInit, Wanted
  <2>2. \A t \in Slots : slots[t] = Empty
    BY DEF PluginInit
  <2>. QED  BY <2>1, <2>2, SlotFacts DEF PluginInit, SlotsFilled, Wirings, Probes, Connects
<1>3. HookOrder /\ HookCover /\ Fresh
  BY DEF PluginInit, HookOrder, HookCover, Fresh
<1>. QED  BY <1>1, <1>2, <1>3 DEF StartInv

LEMMA StepInv ==
  ASSUME StartInv, [StartNext]_startVars
  PROVE  StartInv'
<1>1. CASE UNCHANGED pluginVars
  <2>1. /\ UNCHANGED <<enabled, required, stage, next, slots, wired, connected, checkers,
                       hooks, closed, failed>>
        /\ \A p : (Passed(p)' <=> Passed(p)) /\ (Wanted(p)' <=> Wanted(p))
    BY <1>1 DEF pluginVars, Passed, Wanted
  <2>2. PluginTypeOK' /\ SlotsFilled' /\ Wirings' /\ Probes' /\ Connects'
    BY <2>1 DEF StartInv, PluginTypeOK, SlotsFilled, Wirings, Probes, Connects
  <2>3. HookOrder' /\ HookCover' /\ Fresh'
    BY <2>1 DEF StartInv, HookOrder, HookCover, Fresh
  <2>. QED  BY <2>2, <2>3 DEF StartInv
<1>2. ASSUME NEW g \in Given, UsesGiven(g)
      PROVE  StartInv'
  <2>1. g.on \subseteq Plugins /\ g.required \subseteq g.on \cap Requirable
    BY GivenAssumption
  <2>. DEFINE on == AlwaysOn \cup g.on
  <2>2. on \in SUBSET Plugins /\ g.required \in SUBSET (on \cap Requirable)
    BY <2>1, AllPlugins
  <2>3. BuildBegins(on, g.required)
    BY <1>2 DEF UsesGiven
  <2>. HIDE DEF on
  <2>. QED  BY <2>2, <2>3, BeginCase
<1>3. CASE UsesLoaded
  <2>1. DOMAIN SectionOf \subseteq Plugins
    <3>1. \A i \in 1 .. 30 : BuiltinPlugins[i] \in Plugins
      BY Places
    <3>. QED  BY <3>1, ListItems DEF SectionOf
  <2>2. BusOf(config) \subseteq MqBackends
    BY DEF BusOf, MqBackends
  <2>3. EnabledBy(config) \subseteq Plugins
    BY <2>1, <2>2, AllPlugins DEF EnabledBy
  <2>4. RequiredBy(config) \subseteq EnabledBy(config) \cap Requirable
    BY DEF RequiredBy
  <2>. QED  BY <1>3, <2>3, <2>4, BeginCase DEF UsesLoaded
<1>4. CASE Builds
  BY <1>4, BuildCases DEF Builds
<1>5. CASE ShutdownStep
  BY <1>5, ShutdownCases
<1>. QED  BY <1>1, <1>2, <1>3, <1>4, <1>5 DEF StartNext, startVars, pluginVars

(* The inductive invariant holds in every reachable state. *)
THEOREM Invariance == StartSpec => []StartInv
<1>1. StartInv /\ [StartNext]_startVars => StartInv'
  BY StepInv
<1>. QED  BY <1>1, InitInv, PTL DEF StartSpec

(* Every variable of the plugins has its type. *)
THEOREM TypeCorrectness == StartSpec => []PluginTypeOK
<1>1. StartInv => PluginTypeOK
  BY DEF StartInv
<1>. QED  BY <1>1, Invariance, PTL

(* With the order of builtin_plugins, a component that integrates with       *)
(* another works with the one AppState hands out, whatever is enabled.       *)
THEOREM IntegrationsCorrect == StartSpec => []IntegrationsWired
<1>1. StartInv => IntegrationsWired
  <2>. SUFFICES ASSUME StartInv, stage = "built", NEW u \in (DOMAIN Uses) \cap enabled,
                       slots[Uses[u]] # Empty
                PROVE  <<u, slots[Uses[u]]>> \in wired
    BY DEF IntegrationsWired
  <2>1. next > 30 /\ next \in Nat
    BY ListLength DEF StartInv, Fresh, PluginTypeOK
  <2>2. Passed(u)
    BY <2>1, AllPlugins, Places DEF Passed
  <2>. QED  BY <2>2 DEF StartInv, Wirings
<1>. QED  BY <1>1, Invariance, PTL

(* A started application has the connections it requires, is ready only if   *)
(* what it hands out is connected, and what it reports as enabled is in its  *)
(* slot or was replaced there by an enabled plugin built after it.           *)
THEOREM ReportsCorrect == StartSpec => []ReportsTruthful
<1>1. StartInv => ReportsTruthful
  <2>. SUFFICES ASSUME StartInv, stage = "built"
                PROVE  /\ required \subseteq connected
                       /\ Readyz => \A t \in HealthHandler.components \ {"RateLimiter"} :
                                      Check(Accessor(t))
                       /\ \A p \in PluginsHandler \cap CollectEnabled :
                            Wanted(p) => Accessor(SlotOf(p)) \in InPlaceOf(p)
    BY DEF ReportsTruthful
  <2>1. next > 30 /\ next \in Nat
    BY ListLength DEF StartInv, Fresh, PluginTypeOK
  <2>2. \A p \in Plugins : Passed(p)
    BY <2>1, Places DEF Passed
  <2>3. required \subseteq connected
    BY <2>2 DEF StartInv, Connects, PluginTypeOK
  <2>4. ASSUME Readyz, NEW t \in HealthHandler.components \ {"RateLimiter"}
        PROVE  Check(Accessor(t))
    <3>1. t \in Probed /\ slots[t] # Empty
      BY <2>4 DEF HealthHandler, Has, Accessor, Probed
    <3>2. slots[t] \in checkers \/ slots[t] = "cache.memory"
      BY <3>1 DEF StartInv, Probes
    <3>3. "cache.memory" \notin Connecting
      BY DEF Connecting, Requirable, Stores
    <3>. QED  BY <2>4, <3>2, <3>3 DEF Readyz, Check, Accessor
  <2>5. ASSUME NEW p \in PluginsHandler \cap CollectEnabled, Wanted(p)
        PROVE  Accessor(SlotOf(p)) \in InPlaceOf(p)
    <3>1. p \in Plugins
      BY <2>5 DEF Wanted, StartInv, PluginTypeOK
    <3>2. p \notin Slotless
      BY <2>5 DEF CollectEnabled, BuildPluginsEnabled, Slotless, MqBackends
    <3>3. /\ SlotOf(p) \in Slots /\ slots[SlotOf(p)] # Empty
          /\ Built(slots[SlotOf(p)]) >= Built(p)
      BY <2>2, <2>5, <3>1, <3>2, SlotFacts DEF StartInv, SlotsFilled
    <3>4. Wanted(slots[SlotOf(p)]) /\ SlotOf(slots[SlotOf(p)]) = SlotOf(p)
      BY <3>3 DEF StartInv, SlotsFilled
    <3>. QED  BY <3>3, <3>4 DEF InPlaceOf, Accessor, Wanted
  <2>. QED  BY <2>3, <2>4, <2>5
<1>. QED  BY <1>1, Invariance, PTL

(* Hooks run in the reverse order of the builds, and what a stopped          *)
(* application keeps open is the hook that failed and what lies below it.    *)
THEOREM StopCorrect == StartSpec => []StopCloses
<1>1. StartInv => StopCloses
  BY DEF StartInv, HookOrder, HookCover, StopCloses
<1>. QED  BY <1>1, Invariance, PTL

-----------------------------------------------------------------------------
(* The configuration that is loaded *)

(* What is above what is above a path is above the path. *)
LEMMA AboveFacts ==
  ASSUME NEW S, NEW p \in Seq(S), NEW q \in Above(p)
  PROVE  q # p /\ \A w \in Above(q) : w \in Above(p)
  <1>1. PICK n \in 0 .. (Len(p) - 1) : q = SubSeq(p, 1, n)
    BY DEF Above
  <1>2. Len(p) \in Nat /\ DOMAIN p = 1 .. Len(p) /\ n \in Nat /\ n < Len(p)
    BY <1>1, LenProperties
  <1>3. Len(q) = n /\ q = [i \in 1 .. n |-> p[i]]
    <2>1. SubSeq(p, 1, n) = [i \in 1 .. (1 + n - 1) |-> p[i + 1 - 1]]
      BY DEF SubSeq
    <2>2. q = [i \in 1 .. n |-> p[i]]
      BY <1>1, <1>2, <2>1
    <2>3. QED BY <1>2, <2>2
  <1>4. q # p
    BY <1>2, <1>3
  <1>5. ASSUME NEW w \in Above(q)
        PROVE  w \in Above(p)
    <2>1. PICK m \in 0 .. (n - 1) : w = SubSeq(q, 1, m)
      BY <1>3 DEF Above
    <2>2. m \in Nat /\ m < n /\ m \in 0 .. (Len(p) - 1)
      BY <1>2, <2>1
    <2>3. /\ SubSeq(q, 1, m) = [i \in 1 .. (1 + m - 1) |-> q[i + 1 - 1]]
          /\ SubSeq(p, 1, m) = [i \in 1 .. (1 + m - 1) |-> p[i + 1 - 1]]
      BY DEF SubSeq
    <2>4. /\ SubSeq(q, 1, m) = [i \in 1 .. m |-> q[i]]
          /\ SubSeq(p, 1, m) = [i \in 1 .. m |-> p[i]]
      BY <2>2, <2>3
    <2>5. \A i \in 1 .. m : i \in 1 .. n
      BY <1>2, <2>2
    <2>6. \A i \in 1 .. m : q[i] = p[i]
      BY <1>3, <2>5
    <2>7. [i \in 1 .. m |-> q[i]] = [i \in 1 .. m |-> p[i]]
      BY <2>6
    <2>8. QED BY <2>1, <2>2, <2>4, <2>7 DEF Above
  <1>6. QED BY <1>4, <1>5

(* The value of a variable is no object. *)
LEMMA VariableIsNoObject == \A raw : ParseEnvValue(raw) # Obj
  BY DEF ParseEnvValue, Obj, Bool, Num, Real, Str

(* The leaves that have a type of their own. *)
Typed == Leaves \ {<<"business">>}

LEMMA SchemaFacts ==
  /\ \A p \in Leaves : p \in Seq(STRING) /\ Above(p) \cap Leaves = {}
  /\ \A p \in Leaves : /\ Fits(RinfraConfig[p].type, RinfraConfig[p].default)
                       /\ RinfraConfig[p].default # Obj /\ RinfraConfig[p].default # Required
  /\ \A p \in Typed : ~ Fits(RinfraConfig[p].type, Obj)
  /\ Listeners \in Leaves /\ Listeners \in Above(Item)
  /\ << >> \in DOMAIN ToValue(Default) /\ Item \notin DOMAIN ToValue(Default)
  /\ \A p \in ListenerLeaves : Listeners \in Above(p)
  <1>1. /\ << >> \in DOMAIN ToValue(Default) \cap {<< >>, Item}
        /\ Item \in DOMAIN ToValue(Default) => Item = << >>
    <2>1. {<< >>} = DOMAIN ToValue(Default) \cap {<< >>, Item}
      BY SchemaAssumption
    <2> HIDE DEF Item
    <2>2. QED BY <2>1
  <1>2. Item # << >>
    BY DEF Item
  <1>3. QED BY <1>1, <1>2, SchemaAssumption DEF Typed

(* The leaves outside the list of listeners are those of RinfraConfig, *)
(* whatever the tree has in the list.                                  *)
LEMMA SchemaLeaves ==
  ASSUME NEW t
  PROVE  /\ \A p \in Leaves : p \in DOMAIN Schema(t) /\ Schema(t)[p] = RinfraConfig[p]
         /\ \A p \in DOMAIN Schema(t) : Listeners \notin Above(p) => p \in Leaves
         /\ Item \notin DOMAIN t => Schema(t) = RinfraConfig
  <1>1. DOMAIN ListenerConfig(t) \subseteq ListenerLeaves
    <2> DEFINE HasOptions(o) == Append(Item, o) \in DOMAIN t /\ t[Append(Item, o)] = Obj
               None == [p \in {} |-> Off]
               http == IF HasOptions("http") THEN HttpOptions ELSE None
               tcp == IF HasOptions("tcp") THEN TcpOptions ELSE None
    <2>1. DOMAIN None = {}
      OBVIOUS
    <2>2. DOMAIN http \subseteq DOMAIN HttpOptions /\ DOMAIN tcp \subseteq DOMAIN TcpOptions
      <3> HIDE DEF HasOptions, None
      <3>1. QED BY <2>1
    <2>3. ListenerConfig(t) = Joined(ListenerFields, Joined(http, tcp))
      BY DEF ListenerConfig
    <2> HIDE DEF http, tcp
    <2>4. QED BY <2>2, <2>3 DEF ListenerLeaves, Joined
  <1>2. QED BY <1>1, SchemaFacts DEF Schema, Leaves, Joined

(* Something on the way to p is no object. *)
Blocked(t, p) == \E q \in Above(p) \cap DOMAIN t : t[q] # Obj

(* What the merge starts from, and what it has come to. *)
Base == IF source = "file" THEN file ELSE ToValue(Default)
ValuesFor(vs, p) == {ParseEnvValue(v.raw) : v \in {w \in vs : w.path = p}}

(* A leaf p of the tree t, after the variables vs were merged into base: it   *)
(* has the value of one of them, or of the base, or the tree cannot be read. *)
LeafAfter(t, base, vs, p) ==
  \/ Blocked(t, p)
  \/ p \in DOMAIN t /\ t[p] = Obj
  \/ IF ValuesFor(vs, p) # {} THEN p \in DOMAIN t /\ t[p] \in ValuesFor(vs, p)
     ELSE /\ p \in DOMAIN t <=> p \in DOMAIN base
          /\ p \in DOMAIN t => t[p] = base[p]

LEMMA LeafMerges ==
  ASSUME NEW p \in Leaves, NEW t, NEW base, NEW vs, NEW w, LeafAfter(t, base, vs, p)
  PROVE  LeafAfter(SetNested(t, w.path, w.raw), base, vs \cup {w}, p)
  <1>0. PICK path, raw, u : path = w.path /\ raw = w.raw /\ u = SetNested(t, path, raw)
    OBVIOUS
  <1>1. /\ Blocked(t, path) => u = t
        /\ ~ Blocked(t, path) =>
             /\ DOMAIN u = (DOMAIN t \ Below(path, t)) \cup Above(path) \cup {path}
             /\ u[path] = ParseEnvValue(raw)
             /\ \A q \in DOMAIN u : q # path /\ q \in DOMAIN t => u[q] = t[q]
             /\ \A q \in DOMAIN u : q # path /\ q \notin DOMAIN t => u[q] = Obj
    BY <1>0 DEF SetNested, Blocked
  <1>2. p \in Seq(STRING)
    BY SchemaFacts
  <1>3. path # p => ValuesFor(vs \cup {w}, p) = ValuesFor(vs, p)
    BY <1>0 DEF ValuesFor
  <1>4. path = p => ParseEnvValue(raw) \in ValuesFor(vs \cup {w}, p)
    BY <1>0 DEF ValuesFor
  <1>5. ASSUME Blocked(t, path)
        PROVE  LeafAfter(u, base, vs \cup {w}, p)
    <2>1. CASE path = p
      BY <1>1, <1>5, <2>1 DEF LeafAfter
    <2>2. CASE path # p
      BY <1>1, <1>3, <1>5, <2>2 DEF LeafAfter
    <2>3. QED BY <2>1, <2>2
  <1>6. ASSUME ~ Blocked(t, path)
        PROVE  LeafAfter(u, base, vs \cup {w}, p)
    <2>1. CASE path = p
      <3>1. p \in DOMAIN u /\ u[p] \in ValuesFor(vs \cup {w}, p)
        BY <1>1, <1>4, <1>6, <2>1
      <3>2. QED BY <3>1 DEF LeafAfter
    <2>2. CASE path \in Above(p)
      <3>1. path \in DOMAIN u /\ u[path] # Obj
        BY <1>1, <1>6, VariableIsNoObject
      <3>2. QED BY <2>2, <3>1 DEF LeafAfter, Blocked
    <2>3. CASE p \in Above(path) /\ path # p
      <3>1. p \in DOMAIN u
        BY <1>1, <1>6, <2>3
      <3>2. p \in DOMAIN t => t[p] = Obj
        BY <1>6, <2>3 DEF Blocked
      <3>3. u[p] = Obj
        BY <1>1, <1>6, <2>3, <3>1, <3>2
      <3>4. QED BY <3>1, <3>3 DEF LeafAfter
    <2>4. CASE path # p /\ path \notin Above(p) /\ p \notin Above(path)
      <3>1. p \in DOMAIN u <=> p \in DOMAIN t
        BY <1>1, <1>6, <2>4 DEF Below
      <3>2. p \in DOMAIN t => u[p] = t[p]
        BY <1>1, <1>6, <2>4, <3>1
      <3>3. Blocked(t, p) => Blocked(u, p)
        <4>1. SUFFICES ASSUME NEW q \in Above(p), q \in DOMAIN t, t[q] # Obj
                       PROVE  Blocked(u, p)
          BY DEF Blocked
        <4>2. q # path /\ path \notin Above(q)
          BY <1>2, <2>4, AboveFacts
        <4>3. q \in DOMAIN u
          BY <1>1, <1>6, <4>1, <4>2 DEF Below
        <4>4. u[q] = t[q]
          BY <1>1, <1>6, <4>1, <4>2, <4>3
        <4>5. QED BY <4>1, <4>3, <4>4 DEF Blocked
      <3>4. QED BY <1>3, <2>4, <3>1, <3>2, <3>3 DEF LeafAfter
    <2>5. QED BY <2>1, <2>2, <2>3, <2>4
  <1>7. QED BY <1>0, <1>5, <1>6

(* The tree of the defaults, while every variable fits what is there. *)
Whole(t) ==
  /\ << >> \in DOMAIN t /\ Item \notin DOMAIN t
  /\ \A p \in Leaves : /\ p \in DOMAIN t /\ t[p] # Obj /\ Fits(RinfraConfig[p].type, t[p])
                       /\ ~ Blocked(t, p)

LEMMA WholeMerges ==
  ASSUME NEW t, Whole(t), NEW w, w.path \in Seq(STRING), ~ IllTyped(w)
  PROVE  Whole(SetNested(t, w.path, w.raw))
  <1>0. PICK path, raw, u : path = w.path /\ raw = w.raw /\ u = SetNested(t, path, raw)
    OBVIOUS
  <1>1. /\ Blocked(t, path) => u = t
        /\ ~ Blocked(t, path) =>
             /\ DOMAIN u = (DOMAIN t \ Below(path, t)) \cup Above(path) \cup {path}
             /\ u[path] = ParseEnvValue(raw)
             /\ \A q \in DOMAIN u : q # path /\ q \in DOMAIN t => u[q] = t[q]
             /\ \A q \in DOMAIN u : q # path /\ q \notin DOMAIN t => u[q] = Obj
    BY <1>0 DEF SetNested, Blocked
  <1>2. ASSUME Blocked(t, path)
        PROVE  Whole(u)
    BY <1>1, <1>2
  <1>3. ASSUME ~ Blocked(t, path)
        PROVE  Whole(u)
    <2>1. \A p \in Leaves : path \notin Above(p)
      BY <1>0 DEF IllTyped, Leaves
    <2>2. \A p \in Leaves : p \notin Above(path)
      BY <1>3 DEF Whole, Blocked
    <2>3. << >> \in DOMAIN u
      <3>1. Above(<< >>) = {}
        <4>1. Len(<< >>) = 0
          OBVIOUS
        <4>2. 0 .. (0 - 1) = {}
          OBVIOUS
        <4>3. QED BY <4>1, <4>2 DEF Above
      <3>2. << >> \notin Below(path, t)
        BY <3>1 DEF Below
      <3>3. QED BY <1>1, <1>3, <3>2 DEF Whole
    <2>4. Item \notin DOMAIN u
      <3>1. Listeners \in Above(Item) /\ Listeners \in Leaves
        BY SchemaFacts
      <3>2. Item # path
        BY <2>2, <3>1
      <3>3. Item \notin Above(path)
        BY <1>0, <2>2, <3>1, AboveFacts
      <3>4. QED BY <1>1, <1>3, <3>2, <3>3 DEF Whole
    <2>5. ASSUME NEW p \in Leaves
          PROVE  /\ p \in DOMAIN u /\ u[p] # Obj /\ Fits(RinfraConfig[p].type, u[p])
                 /\ ~ Blocked(u, p)
      <3>1. /\ p \in DOMAIN t /\ t[p] # Obj /\ Fits(RinfraConfig[p].type, t[p])
            /\ ~ Blocked(t, p)
        BY DEF Whole
      <3>2. p \in DOMAIN u
        BY <1>1, <1>3, <2>1, <3>1 DEF Below
      <3>3. CASE p = path
        <4>1. Fits(RinfraConfig[p].type, ParseEnvValue(raw))
          BY <1>0, <3>3 DEF IllTyped, Leaves
        <4>2. u[p] = ParseEnvValue(raw)
          BY <1>1, <1>3, <3>3
        <4>3. u[p] # Obj /\ Fits(RinfraConfig[p].type, u[p])
          BY <4>1, <4>2, VariableIsNoObject
        <4>4. ASSUME NEW q \in Above(p), q \in DOMAIN u
              PROVE  u[q] = Obj
          BY <1>1, <1>3, <2>1, <3>1, <4>4 DEF Blocked
        <4>5. QED BY <3>2, <4>3, <4>4 DEF Blocked
      <3>4. CASE p # path
        <4>1. u[p] = t[p]
          BY <1>1, <1>3, <3>1, <3>2, <3>4
        <4>2. ASSUME NEW q \in Above(p), q \in DOMAIN u
              PROVE  u[q] = Obj
          BY <1>1, <1>3, <2>1, <3>1, <4>2 DEF Blocked
        <4>3. QED BY <3>1, <3>2, <4>1, <4>2 DEF Blocked
      <3>5. QED BY <3>3, <3>4
    <2>6. QED BY <2>3, <2>4, <2>5 DEF Whole
  <1>4. QED BY <1>0, <1>2, <1>3

LEMMA DefaultsAreWhole == Whole(ToValue(Default))
  <1> DEFINE t == ToValue(Default)
  <1>1. DOMAIN Default = Leaves /\ \A p \in Leaves : Default[p] = RinfraConfig[p].default
    BY DEF Default, Leaves
  <1>2. t = [q \in Leaves \cup UNION {Above(p) : p \in Leaves} |->
               IF q \in Leaves THEN Default[q] ELSE Obj]
    BY <1>1 DEF ToValue
  <1>3. \A p \in Leaves : p \in DOMAIN t /\ t[p] = RinfraConfig[p].default
    BY <1>1, <1>2
  <1>4. \A p \in Leaves : \A q \in Above(p) : q \notin Leaves /\ t[q] = Obj
    <2>1. \A p \in Leaves : \A q \in Above(p) : q \notin Leaves
      BY SchemaFacts
    <2>2. QED BY <1>2, <2>1
  <1>5. \A p \in Leaves : ~ Blocked(t, p)
    BY <1>4 DEF Blocked
  <1>6. << >> \in DOMAIN t /\ Item \notin DOMAIN t
    BY SchemaFacts
  <1> HIDE DEF t
  <1>7. QED BY <1>3, <1>5, <1>6, SchemaFacts DEF Whole, t

LEMMA WholeIsReadable == ASSUME NEW t, Whole(t) PROVE Readable(t)
  <1>1. Schema(t) = RinfraConfig
    BY SchemaLeaves DEF Whole
  <1>2. \A p \in Leaves : \A q \in Above(p) \cap DOMAIN t : t[q] = Obj
    BY DEF Whole, Blocked
  <1>3. Misfits(t) = {}
    BY <1>1, <1>2 DEF Misfits, Leaves, Whole
  <1>4. QED BY <1>3 DEF Readable, Whole

(* The inductive invariant: until the configuration is used, and while the *)
(* variables come one after another.                                       *)
Loading ==
  load \in {"start", "merging", "loaded"} =>
    /\ asked \in Envs /\ unmerged \subseteq asked
    /\ source \in {"file", "defaults"}
    /\ source = "defaults" => file = NoTree

Untouched == load = "start" => unmerged = asked

Merging ==
  load = "merging" => \A p \in Typed : LeafAfter(tree, Base, asked \ unmerged, p)

Fitting ==
  load = "merging" /\ source = "defaults" /\ (\A v \in asked : ~ IllTyped(v)) => Whole(tree)

LoadInv == Loading /\ Untouched /\ Merging /\ Fitting /\ ConfigAsAsked

(* Nothing was merged yet. *)
LEMMA LeafBefore == \A t, p : LeafAfter(t, t, {}, p)
  BY DEF LeafAfter, ValuesFor

(* A leaf of a tree that was read has the value it should have. *)
LEMMA LeafRead ==
  ASSUME LoadInv, load = "merging", unmerged = {}, Readable(tree),
         NEW p \in DOMAIN Schema(tree), p # <<"business">>, Listeners \notin Above(p)
  PROVE  FromValue(tree)[p] \in Expected(p)
  <1>1. p \in Typed /\ p \in Leaves
    BY SchemaLeaves DEF Typed
  <1>2. Schema(tree)[p] = RinfraConfig[p] /\ Schema(file)[p] = RinfraConfig[p]
    BY <1>1, SchemaLeaves
  <1>3. /\ \A q \in Above(p) \cap DOMAIN tree : tree[q] = Obj
        /\ p \in DOMAIN tree => Fits(RinfraConfig[p].type, tree[p])
    BY <1>2 DEF Readable, Misfits
  <1>4. ~ Blocked(tree, p)
    BY <1>3 DEF Blocked
  <1>5. ~ (p \in DOMAIN tree /\ tree[p] = Obj)
    BY <1>1, <1>3, SchemaFacts
  <1>6. asked \ unmerged = asked
    OBVIOUS
  <1>7. IF ValuesFor(asked, p) # {} THEN p \in DOMAIN tree /\ tree[p] \in ValuesFor(asked, p)
        ELSE /\ p \in DOMAIN tree <=> p \in DOMAIN Base
             /\ p \in DOMAIN tree => tree[p] = Base[p]
    BY <1>1, <1>4, <1>5, <1>6 DEF LoadInv, Merging, LeafAfter
  <1>8. FromValue(tree)[p] = IF p \in DOMAIN tree THEN tree[p] ELSE RinfraConfig[p].default
    BY <1>2 DEF FromValue
  <1>9. CASE ValuesFor(asked, p) # {}
    <2>1. \E v \in asked : v.path = p
      BY <1>9 DEF ValuesFor
    <2>2. Expected(p) = ValuesFor(asked, p)
      BY <2>1 DEF Expected, ValuesFor
    <2>3. QED BY <1>7, <1>8, <1>9, <2>2
  <1>10. CASE ValuesFor(asked, p) = {}
    <2>1. ~ \E v \in asked : v.path = p
      BY <1>10 DEF ValuesFor
    <2>2. Expected(p) = {IF p \in DOMAIN file THEN file[p] ELSE RinfraConfig[p].default}
      BY <1>2, <2>1 DEF Expected
    <2>3. CASE source = "file"
      BY <1>7, <1>8, <1>10, <2>2, <2>3 DEF Base
    <2>4. CASE source = "defaults"
      <3>1. p \notin DOMAIN file
        BY <2>4 DEF LoadInv, Loading, NoTree
      <3>2. Base = ToValue(Default)
        BY <2>4 DEF Base
      <3>3. p \in DOMAIN Base /\ Base[p] = RinfraConfig[p].default
        BY <1>1, <3>2 DEF ToValue, Default, Leaves
      <3>4. QED BY <1>7, <1>8, <1>10, <2>2, <3>1, <3>3
    <2>5. QED BY <2>3, <2>4 DEF LoadInv, Loading
  <1>11. QED BY <1>9, <1>10

LEMMA LoadStart == StartInit => LoadInv
  <1>1. SUFFICES ASSUME LoadInit PROVE LoadInv
    BY DEF StartInit
  <1>2. /\ load = "start" /\ asked \in Envs /\ unmerged = asked
        /\ source \in {"file", "defaults"}
    BY <1>1 DEF LoadInit
  <1>3. source = "defaults" => file = NoTree
    BY <1>1 DEF LoadInit
  <1>4. QED BY <1>2, <1>3 DEF LoadInv, Loading, Untouched, Merging, Fitting, ConfigAsAsked

LEMMA MergeCase ==
  ASSUME LoadInv, NEW v \in asked, Merges(v)
  PROVE  LoadInv'
  <1>1. /\ load = "merging" /\ v \in unmerged
        /\ tree' = SetNested(tree, v.path, v.raw)
        /\ unmerged' = unmerged \ {v}
        /\ source' = source /\ load' = load /\ file' = file /\ asked' = asked
    BY DEF Merges
  <1>2. Loading' /\ Untouched' /\ ConfigAsAsked'
    BY <1>1 DEF LoadInv, Loading, Untouched, ConfigAsAsked
  <1>3. Merging'
    <2>1. Base' = Base
      BY <1>1 DEF Base
    <2>2. asked' \ unmerged' = (asked \ unmerged) \cup {v}
      BY <1>1 DEF LoadInv, Loading
    <2>3. ASSUME NEW p \in Typed
          PROVE  LeafAfter(tree', Base', asked' \ unmerged', p)
      <3>1. LeafAfter(tree, Base, asked \ unmerged, p)
        BY <1>1 DEF LoadInv, Merging
      <3>2. p \in Leaves
        BY DEF Typed
      <3>3. LeafAfter(SetNested(tree, v.path, v.raw), Base, (asked \ unmerged) \cup {v}, p)
        BY <3>1, <3>2, LeafMerges
      <3>4. QED BY <1>1, <2>1, <2>2, <3>3
    <2>4. Typed' = Typed /\ \A t, b, vs, p : LeafAfter(t, b, vs, p)' = LeafAfter(t, b, vs, p)
      OBVIOUS
    <2>5. QED BY <2>3 DEF Merging
  <1>4. Fitting'
    <2>1. SUFFICES ASSUME source = "defaults", \A w \in asked : ~ IllTyped(w)
                   PROVE  Whole(tree')
      BY <1>1 DEF Fitting
    <2>2. Whole(tree)
      BY <1>1, <2>1 DEF LoadInv, Fitting
    <2>3. v.path \in Seq(STRING)
      BY <1>1, EnvsAssumption DEF LoadInv, Loading
    <2>4. Whole(SetNested(tree, v.path, v.raw))
      BY <2>1, <2>2, <2>3, WholeMerges
    <2>5. QED BY <1>1, <2>4
  <1>5. QED BY <1>2, <1>3, <1>4 DEF LoadInv

LEMMA BeginLoadCases ==
  ASSUME LoadInv, ReadsFile \/ UsesDefaults
  PROVE  LoadInv'
  <1>1. /\ load = "start" /\ load' = "merging"
        /\ source' = source /\ file' = file /\ asked' = asked /\ unmerged' = unmerged
        /\ tree' = Base
    BY DEF ReadsFile, UsesDefaults, Base
  <1>2. Loading' /\ Untouched' /\ ConfigAsAsked'
    BY <1>1 DEF LoadInv, Loading, Untouched, ConfigAsAsked
  <1>3. Merging'
    <2>1. Base' = Base /\ asked' \ unmerged' = {}
      BY <1>1 DEF Base, LoadInv, Untouched
    <2>2. \A p : LeafAfter(tree', Base', asked' \ unmerged', p)
      BY <1>1, <2>1, LeafBefore
    <2>3. QED BY <2>2 DEF Merging
  <1>4. Fitting'
    <2>1. SUFFICES ASSUME source = "defaults"
                   PROVE  Whole(tree')
      BY <1>1 DEF Fitting
    <2>2. tree' = ToValue(Default)
      BY <1>1, <2>1 DEF Base
    <2>3. QED BY <2>2, DefaultsAreWhole
  <1>5. QED BY <1>2, <1>3, <1>4 DEF LoadInv

LEMMA EndLoadCases ==
  ASSUME LoadInv, Deserializes \/ DeserializeFails
  PROVE  LoadInv'
  <1>1. /\ load = "merging" /\ load' \in {"loaded", "failed"} /\ unmerged = {}
        /\ source' = source /\ file' = file /\ asked' = asked /\ unmerged' = unmerged
    BY DEF Deserializes, DeserializeFails
  <1>2. Loading' /\ Untouched' /\ Merging' /\ Fitting'
    BY <1>1 DEF LoadInv, Loading, Untouched, Merging, Fitting
  <1>3. CASE Deserializes
    <2>1. Readable(tree) /\ config' = FromValue(tree)
      BY <1>3 DEF Deserializes
    <2>2. DOMAIN config' = DOMAIN Schema(tree)
      BY <2>1 DEF FromValue
    <2>3. \A p : Expected(p)' = Expected(p)
      BY <1>1 DEF Expected
    <2>4. \A p \in DOMAIN config' \ {<<"business">>} :
             Listeners \notin Above(p) => config'[p] \in Expected(p)'
      BY <1>1, <2>1, <2>2, <2>3, LeafRead
    <2>5. ConfigAsAsked'
      BY <2>4 DEF ConfigAsAsked
    <2>6. QED BY <1>2, <2>5 DEF LoadInv
  <1>4. CASE DeserializeFails
    <2>1. CASE source = "defaults"
      <3>1. ~ Readable(tree) /\ config' = Default
        BY <1>4, <2>1 DEF DeserializeFails
      <3>2. ~ Whole(tree)
        BY <3>1, WholeIsReadable
      <3>3. PICK v \in asked : IllTyped(v)
        BY <1>1, <2>1, <3>2 DEF LoadInv, Fitting
      <3>4. ConfigAsAsked'
        BY <1>1, <2>1, <3>1, <3>3 DEF ConfigAsAsked
      <3>5. QED BY <1>2, <3>4 DEF LoadInv
    <2>2. CASE source # "defaults"
      BY <1>2, <1>4, <2>2 DEF DeserializeFails, LoadInv, ConfigAsAsked
    <2>3. QED BY <2>1, <2>2
  <1>5. QED BY <1>3, <1>4

LEMMA LoadInvStep ==
  ASSUME LoadInv, [StartNext]_startVars
  PROVE  LoadInv'
  <1>1. CASE UNCHANGED loadVars
    <2>1. /\ source' = source /\ load' = load /\ file' = file /\ asked' = asked
          /\ unmerged' = unmerged /\ tree' = tree /\ config' = config
      BY <1>1 DEF loadVars
    <2>2. Base' = Base /\ \A p : Expected(p)' = Expected(p)
      BY <2>1 DEF Base, Expected
    <2>3. Loading' /\ Untouched' /\ Merging' /\ Fitting'
      BY <2>1, <2>2 DEF LoadInv, Loading, Untouched, Merging, Fitting
    <2>4. ConfigAsAsked'
      BY <2>1, <2>2 DEF LoadInv, ConfigAsAsked
    <2>5. QED BY <2>3, <2>4 DEF LoadInv
  <1>2. CASE LoadStep
    <2>1. CASE ReadFails
      BY <2>1 DEF ReadFails, LoadInv, Loading, Untouched, Merging, Fitting, ConfigAsAsked
    <2>2. QED BY <1>2, <2>1, MergeCase, BeginLoadCases, EndLoadCases DEF LoadStep
  <1>3. CASE load' = "used"
    BY <1>3 DEF LoadInv, Loading, Untouched, Merging, Fitting, ConfigAsAsked
  <1>4. QED BY <1>1, <1>2, <1>3 DEF StartNext, startVars, UsesGiven, UsesLoaded, Builds

(* "Load config from file, then apply env overrides": in whatever order the    *)
(* variables come, the configuration that is loaded has, at each of its leaves, *)
(* what they, the file and the defaults ask for; or the defaults, when a       *)
(* variable without a file does not fit.                                       *)
THEOREM ConfigCorrect == StartSpec => []ConfigAsAsked
  <1>1. LoadInv /\ [StartNext]_startVars => LoadInv'
    BY LoadInvStep
  <1>2. LoadInv => ConfigAsAsked
    BY DEF LoadInv
  <1>3. QED BY <1>1, <1>2, LoadStart, PTL DEF StartSpec

-----------------------------------------------------------------------------
(* The reloads *)

(* The version that was parsed lies between what the handlers were told and *)
(* what is on disk.                                                         *)
WatcherFields == {"at", "path", "last", "parsed", "left", "handlers", "since"}
DiskFields == {"mtime", "whole", "edits"}

Versions ==
  /\ DiskFields \subseteq DOMAIN disk /\ WatcherFields \subseteq DOMAIN watcher
  /\ disk.mtime \in Nat /\ disk.whole \in BOOLEAN
  /\ told \in [Handlers -> Nat]
  /\ watcher.handlers \in Seq(Handlers)

Between ==
  /\ \A h \in Handlers : told[h] =< disk.mtime
  /\ watcher.at = "telling" =>
       /\ watcher.left \in Seq(Handlers)
       /\ watcher.parsed \in Nat /\ watcher.parsed =< disk.mtime
       /\ \A h \in Handlers : told[h] =< watcher.parsed

WatchInv == Versions /\ Between

LEMMA WatchInitially == StartInit => WatchInv
  <1>1. ASSUME WatchInit
        PROVE  WatchInv
    <2>1. << >> \in Seq(Handlers)
      BY EmptySeq
    <2>2. /\ DOMAIN disk = DiskFields /\ DOMAIN watcher = WatcherFields
          /\ disk.mtime = 1 /\ disk.whole \in BOOLEAN
          /\ watcher.handlers = << >> /\ watcher.at = "off"
      BY <1>1 DEF WatchInit, DiskFields, WatcherFields
    <2>3. told \in [Handlers -> Nat] /\ \A h \in Handlers : told[h] = 1
      <3>1. told = [h \in Handlers |-> 1]
        BY <1>1, Zenon DEF WatchInit
      <3>2. QED BY <3>1
    <2>4. Versions
      BY <2>1, <2>2, <2>3 DEF Versions
    <2>5. QED BY <2>2, <2>3, <2>4 DEF WatchInv, Between
  <1>2. QED BY <1>1 DEF StartInit

LEMMA EditKeeps ==
  ASSUME WatchInv, EditBegins \/ EditEnds
  PROVE  WatchInv'
  <1>1. /\ watcher' = watcher /\ told' = told
        /\ disk.mtime' = disk.mtime + 1 /\ disk.whole' \in BOOLEAN
        /\ DiskFields \subseteq DOMAIN disk'
    <2>1. CASE EditBegins
      BY <2>1 DEF EditBegins, DiskFields
    <2>2. CASE EditEnds
      BY <2>2 DEF EditEnds, DiskFields, WatchInv, Versions
    <2>3. QED BY <2>1, <2>2
  <1>2. disk.mtime \in Nat
    BY DEF WatchInv, Versions
  <1>3. Versions'
    BY <1>1, <1>2 DEF WatchInv, Versions
  <1>4. Between'
    BY <1>1, <1>2 DEF WatchInv, Versions, Between
  <1>5. QED BY <1>3, <1>4 DEF WatchInv

(* What the watcher's step does that the handlers do not see. *)
LEMMA PollKeeps ==
  ASSUME WatchInv, disk' = disk, told' = told, WatcherFields \subseteq DOMAIN watcher',
         watcher.handlers' \in Seq(Handlers), watcher.at' # "telling"
  PROVE  WatchInv'
  BY DEF WatchInv, Versions, Between

LEMMA WatcherKeeps ==
  ASSUME WatchInv, WatcherStep
  PROVE  WatchInv'
  <1>1. WatcherFields \subseteq DOMAIN watcher /\ watcher.handlers \in Seq(Handlers)
    BY DEF WatchInv, Versions
  <1>2. CASE FirstLook
    BY <1>1, <1>2, PollKeeps DEF FirstLook, WatcherFields
  <1>3. CASE PollSees
    BY <1>1, <1>3, PollKeeps DEF PollSees, WatcherFields
  <1>4. CASE ParseConfig
    <2>1. disk' = disk /\ told' = told /\ watcher.at = "changed"
      BY <1>4 DEF ParseConfig
    <2>2. CASE watcher' = [watcher EXCEPT !.at = "sleeping"]
      BY <1>1, <2>1, <2>2, PollKeeps DEF WatcherFields
    <2>3. CASE watcher' = [watcher EXCEPT !.at = "telling", !.parsed = disk.mtime,
                                          !.left = watcher.handlers]
      <3>1. /\ WatcherFields \subseteq DOMAIN watcher'
            /\ watcher.handlers' = watcher.handlers /\ watcher.left' = watcher.handlers
            /\ watcher.parsed' = disk.mtime
        BY <1>1, <2>3 DEF WatcherFields
      <3>2. QED BY <2>1, <3>1 DEF WatchInv, Versions, Between
    <2>4. QED BY <1>4, <2>2, <2>3 DEF ParseConfig
  <1>5. CASE OnReload
    <2>1. /\ watcher.at = "telling" /\ watcher.left # << >> /\ disk' = disk
          /\ told' = [told EXCEPT ![Head(watcher.left)] = watcher.parsed]
      BY <1>5 DEF OnReload
    <2>2. /\ WatcherFields \subseteq DOMAIN watcher' /\ watcher.at' = watcher.at
          /\ watcher.handlers' = watcher.handlers /\ watcher.left' = Tail(watcher.left)
          /\ watcher.parsed' = watcher.parsed
      BY <1>1, <1>5 DEF OnReload, WatcherFields
    <2>3. Tail(watcher.left) \in Seq(Handlers)
      BY <2>1, HeadTailProperties DEF WatchInv, Between
    <2>4. Versions'
      BY <2>1, <2>2 DEF WatchInv, Versions, Between
    <2>5. \A h \in Handlers : told'[h] =< watcher.parsed
      BY <2>1 DEF WatchInv, Versions, Between
    <2>6. Between'
      BY <2>1, <2>2, <2>3, <2>4, <2>5 DEF WatchInv, Versions, Between
    <2>7. QED BY <2>4, <2>6 DEF WatchInv
  <1>6. CASE ReloadEnds
    BY <1>1, <1>6, PollKeeps DEF ReloadEnds, WatcherFields
  <1>7. QED BY <1>2, <1>3, <1>4, <1>5, <1>6 DEF WatcherStep

LEMMA StartsKeeps ==
  ASSUME WatchInv, NEW path, NEW handlers \in Seq(Handlers), WatchStarts(path, handlers),
         UNCHANGED <<disk, told>>
  PROVE  WatchInv'
  <1>1. WatcherFields \subseteq DOMAIN watcher
    BY DEF WatchInv, Versions
  <1>2. /\ WatcherFields \subseteq DOMAIN watcher' /\ watcher.handlers' = handlers
        /\ watcher.at' = "spawned"
    BY <1>1 DEF WatchStarts, WatcherFields
  <1>3. QED BY <1>2, PollKeeps

LEMMA WatchStepKeeps == WatchInv /\ [StartNext]_startVars => WatchInv'
  <1> SUFFICES ASSUME WatchInv, [StartNext]_startVars
               PROVE  WatchInv'
    OBVIOUS
  <1>1. CASE UNCHANGED watchVars
    BY <1>1 DEF watchVars, WatchInv, Versions, Between
  <1>2. CASE WatchStep
    BY <1>2, EditKeeps, WatcherKeeps DEF WatchStep
  <1>3. CASE Builds
    <2>1. PICK hs : hs = IF Has("audit.file") THEN <<"log", "audit">> ELSE <<"log">>
      OBVIOUS
    <2>2. <<"log">> \in Seq(Handlers) /\ <<"log", "audit">> \in Seq(Handlers)
      BY DEF Handlers
    <2>3. UNCHANGED watchVars \/ (WatchStarts(config_path, hs) /\ UNCHANGED <<disk, told>>)
      BY <1>3, <2>1 DEF Builds
    <2>4. QED BY <1>1, <2>1, <2>2, <2>3, StartsKeeps
  <1>4. QED BY <1>1, <1>2, <1>3 DEF StartNext, UsesGiven, UsesLoaded, startVars, watchVars

(* A handler of a reload is never taken back to an older version of the file,  *)
(* half-written ones counted, however edits and polls interleave.             *)
THEOREM ReloadsCorrect == StartSpec => NeverOlder
  <1>1. ASSUME WatchInv, [StartNext]_startVars
        PROVE  [\A h \in Handlers : told'[h] >= told[h]]_watchVars
    <2>1. CASE OnReload
      BY <1>1, <2>1 DEF OnReload, WatchInv, Versions, Between
    <2>2. CASE told' = told
      BY <1>1, <2>2 DEF WatchInv, Versions
    <2>3. QED BY <1>1, <2>1, <2>2 DEF StartNext, UsesGiven, UsesLoaded, Builds, startVars,
                watchVars, WatchStep, EditBegins, EditEnds, WatcherStep, FirstLook,
                PollSees, ParseConfig, ReloadEnds
  <1>2. StartSpec => []WatchInv
    BY WatchInitially, WatchStepKeeps, PTL DEF StartSpec
  <1>3. QED BY <1>1, <1>2, PTL DEF StartSpec, NeverOlder
=============================================================================
