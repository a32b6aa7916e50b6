----------------------------- MODULE Resolution -----------------------------
(***************************************************************************)
(* Where a command of the launcher takes its values from: an option of the *)
(* command line (the record f), the environment of the process and the     *)
(* files of the shop (the record e), bc-manifest.yaml (the record m), or a *)
(* default.  None is a value that is not given or empty.                   *)
(***************************************************************************)
EXTENDS Sequences, Naturals

CONSTANTS
  None,
  Default,      \* the product slug "shopsystem"
  Malformed,    \* a product: that is null, a number, a list
  Blank,        \* a remote: of spaces
  Slugified(_), \* lower case, hyphens for spaces
  Stripped(_)   \* a shop name without its suffix "-product"

Least(S) == CHOOSE i \in S : \A j \in S : i <= j

FirstOf(s) ==
  LET given == {i \in DOMAIN s : s[i] # None}
  IN  IF given = {} THEN None ELSE s[Least(given)]

(* A manifest: what the file is (absent, unparsable, ok, or YAML without bcs:),
   its product: and its entries. *)
HasProduct(m) == m.file \in {"ok", "nobcs"}
IsBadProduct(m) == HasProduct(m) /\ m.product = Malformed
LoadedProduct(m) == IF HasProduct(m) /\ ~IsBadProduct(m) THEN m.product ELSE None

\* resolve_product_slug: the prefix BC names are to have
ProductSlug(m, e, f) == FirstOf(<<f.product, e.product, LoadedProduct(m), Default>>)

\* the SHOPMSG_SYSTEM_SLUG given to the container
SystemSlug(m, e) == FirstOf(<<e.slug, LoadedProduct(m), Default>>)

\* _resolve_shop_network: compose.yaml, else .claude/shop/name.md
ShopNetwork(e) ==
  FirstOf(<<e.compose, IF e.shop = None THEN None ELSE Slugified(Stripped(e.shop))>>)

ProductNetwork(m) == IF LoadedProduct(m) = None THEN None ELSE Slugified(LoadedProduct(m))
Network(m, e, f)  == FirstOf(<<f.network, ProductNetwork(m), ShopNetwork(e)>>)

\* _resolve_manifest_remote: the first entry of that name decides
ManifestRemote(m, name) ==
  LET named  == {i \in DOMAIN m.entries : m.entries[i].name = name}
      remote == m.entries[Least(named)].remote
  IN  IF m.file # "ok" \/ named = {} \/ remote = Blank THEN None ELSE remote

CloneSource(m, f, name) ==
  IF f.repo # None \/ f.mount # None THEN f.repo ELSE ManifestRemote(m, name)

\* launch gets as far as `docker run`
Launches(m, e, f, name) ==
  /\ m.file # "unparsable"
  /\ IsBadProduct(m) => f.network # None
  /\ Network(m, e, f) # None
  /\ f.mount # None \/ CloneSource(m, f, name) # None

-----------------------------------------------------------------------------
(* The control API of agent-vault, which is probed before an agent starts *)

\* The broker is called `agent-vault` on the network of the default product and
\* `<slug>-agent-vault` on that of another (external).
Unqualified  == <<"agent-vault">>
Qualified(s) == <<s, "agent-vault">>
BrokerOn(network) == IF network = Default THEN Unqualified ELSE Qualified(network)

ExplicitBroker(e, f) == FirstOf(<<f.broker, e.broker>>)

\* Mutant: the probe of the one name that the default network knows
ProbeUnqualified(broker, slug) == IF broker # None THEN broker ELSE Unqualified

\* resolve_probe_broker_address
ProbeAddress(broker, slug) ==
  IF broker # None THEN broker
  ELSE IF slug # None /\ slug # Default THEN Qualified(Slugified(slug))
  ELSE Unqualified

LaunchProbe(m, e, f) == ProbeAddress(ExplicitBroker(e, f), SystemSlug(m, e))

\* start_agent has a resolution of its own
StartSlug(m, e) == FirstOf(<<e.slug, LoadedProduct(m), Default>>)
StartProbe(m, e, f) == ProbeAddress(ExplicitBroker(e, f), StartSlug(m, e))
=============================================================================
