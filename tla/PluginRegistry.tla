--------------------------- MODULE PluginRegistry ---------------------------
(***************************************************************************)
(* The plugin registry (plugins/plugin-registry.ts): which plugin answers  *)
(* for a merchant.  A plugin is its name here; the merchants it has        *)
(* adapters for, in their order, are MerchantsOf.                          *)
(***************************************************************************)
EXTENDS Integers, Sequences, SequencesExt

CONSTANTS
    Plugins,
    PluginMerchants,
    MerchantsOf,       \* the adapters of each plugin
    Throwing           \* plugins whose load and unload may throw

ASSUME PluginAssumption ==
    /\ MerchantsOf \in [Plugins -> Seq(PluginMerchants)]
    /\ Throwing \subseteq Plugins

VARIABLES
    plugins,      \* the ids registered
    adapters,     \* merchant -> the plugin whose adapter it has, if any
    unloaded,     \* auxiliary: what a registered plugin never got, as its load threw
    rivals        \* auxiliary: the plugins registered or unregistered since it was,
                  \* itself if its own unload threw

registryVars == <<plugins, adapters, unloaded, rivals>>

MerchantsIn(p) == ToSet(MerchantsOf[p])

RegistryInit ==
    /\ plugins = {}
    /\ adapters = [m \in PluginMerchants |-> {}]
    /\ unloaded = [p \in Plugins |-> {}] /\ rivals = [p \in Plugins |-> {}]

\* the merchants that p gets when load throws at its n-th adapter, or never
Installed(p, n) == {MerchantsOf[p][i] : i \in 1..n}

\* how many adapters register gets to
Progress(p) ==
    {Len(MerchantsOf[p])} \cup (IF p \in Throwing THEN DOMAIN MerchantsOf[p] ELSE {})

Install(p, n) ==
    /\ adapters' = [m \in PluginMerchants |->
            IF m \in Installed(p, n) THEN {p} ELSE adapters[m]]
    /\ unloaded' = [unloaded EXCEPT ![p] = MerchantsIn(p) \ Installed(p, n)]

\* the plugins `kept` meet p, one that is new or gone has met nobody
Meet(p, kept) == rivals' = [q \in Plugins |-> IF q \in kept THEN rivals[q] \cup {p} ELSE {}]

\* mutant: a plugin is registered once all its adapters are loaded
Register_Late(p) ==
    /\ p \notin plugins
    /\ \E n \in Progress(p) :
        /\ Install(p, n)
        /\ plugins' = IF n = Len(MerchantsOf[p]) THEN plugins \cup {p} ELSE plugins
    /\ Meet(p, plugins)

\* register throws for an id it has.  The id is entered first; then, for each
\* adapter, the merchant's entry is replaced and load called, and a load that
\* throws leaves the rest undone
Register(p) ==
    /\ p \notin plugins
    /\ plugins' = plugins \cup {p}
    /\ \E n \in Progress(p) : Install(p, n)
    /\ Meet(p, plugins)

\* the merchants of the plugin lose whatever adapter they have; an unload that
\* throws comes before the plugin is deleted
Unregister(p) ==
    /\ p \in plugins
    /\ adapters' = [m \in PluginMerchants |-> IF m \in MerchantsIn(p) THEN {} ELSE adapters[m]]
    /\ \/ plugins' = plugins \ {p}
       \/ p \in Throwing /\ UNCHANGED plugins
    /\ Meet(p, plugins')
    /\ UNCHANGED unloaded

ClearRegistry ==
    /\ plugins # {}
    /\ plugins' = {}
    /\ adapters' = [m \in PluginMerchants |-> {}]
    /\ rivals' = [p \in Plugins |-> {}]
    /\ UNCHANGED unloaded

RegistryNext ==
    \/ \E p \in Plugins : Register(p) \/ Unregister(p)
    \/ ClearRegistry

RegistrySpec == RegistryInit /\ [][RegistryNext]_registryVars

-----------------------------------------------------------------------------
\* getAdapter
GetAdapter(m) == adapters[m]

(***************************************************************************)
(* Every adapter in use is of a registered plugin that has the merchant,   *)
(* so unregistering a plugin gets rid of it even if its loading or an      *)
(* earlier unload had failed half-way; and a registered plugin answers for *)
(* its merchants, but for those its own load never got to and those of a   *)
(* plugin registered or unregistered after it (itself, when its own unload *)
(* threw), which take the adapter whosever it is (register, unregister).   *)
(***************************************************************************)
AdaptersAreOwned ==
    /\ \A m \in PluginMerchants : \A p \in GetAdapter(m) : p \in plugins /\ m \in MerchantsIn(p)
    /\ \A p \in plugins : \A m \in MerchantsIn(p) \ unloaded[p] :
          GetAdapter(m) = {p} \/ \E q \in rivals[p] : m \in MerchantsIn(q)
=============================================================================
