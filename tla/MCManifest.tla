----------------------------- MODULE MCManifest -----------------------------
(* Instance of Manifest for TLC: two names of which one has the form of a
   name of the product acme, and manifests of up to three entries. *)
EXTENDS Manifest, TLC

CONSTANTS bcA, bcB, u1, u2, acme, Acme, compose, broker1, broker2, net, mount

SlugOf(s) == IF s = Acme THEN acme ELSE s
StripOf(s) == s

CanonicalNames == (acme :> {bcA}) @@ (Default :> {bcB}) @@ (Acme :> {})

Of(n, u) == [name |-> n, remote |-> u, role |-> "bc"]
File_(product, entries) == [file |-> "ok", product |-> product, entries |-> entries]

SomeManifests ==
  { [file |-> "absent", product |-> None, entries |-> <<>>],
    [file |-> "unparsable", product |-> None, entries |-> <<>>],
    [file |-> "nobcs", product |-> acme, entries |-> <<>>],
    File_(None, <<Of(bcA, u1), Of(bcB, u2)>>),
    File_(acme, <<Of(bcA, u1)>>),
    File_(Acme, <<Of(bcB, u1), Of(bcA, u1)>>),
    File_(Default, <<Of(bcA, u1), Of(bcA, u2), Of(bcB, u1)>>),
    File_(None, <<Of(bcB, None)>>),
    File_(Malformed, <<Of(None, u1), [name |-> bcB, remote |-> u2, role |-> None]>>),
    File_(acme, <<Of(bcA, Blank), Of(bcB, u2)>>) }

NoEnv == [product |-> None, slug |-> None, compose |-> None, shop |-> None, broker |-> None]
SomeEnvs ==
  { NoEnv,
    [NoEnv EXCEPT !.shop = Acme],
    [NoEnv EXCEPT !.compose = compose, !.shop = Acme],
    [NoEnv EXCEPT !.slug = acme],
    [NoEnv EXCEPT !.slug = Default, !.product = acme],
    [NoEnv EXCEPT !.broker = broker1, !.slug = acme] }

NoOption == [product |-> None, network |-> None, repo |-> None, mount |-> None, broker |-> None]
SomeOptions ==
  { NoOption,
    [NoOption EXCEPT !.product = Default],
    [NoOption EXCEPT !.network = net],
    [NoOption EXCEPT !.repo = u2, !.broker = broker2],
    [NoOption EXCEPT !.mount = mount] }
=============================================================================
