---------------------------- MODULE MCImportEdits ----------------------------
(***************************************************************************)
(* Files with an import block, with declarations of their own, and paths   *)
(* before and after those of nats.go.                                      *)
(***************************************************************************)
EXTENDS ImportEdits

MCPaths == <<"bytes", "context", "embed", "time", "a.org/a", "b.org/go-b", "nats.go", "nats.go/jetstream", "z.org/z/v2">>
MCStd == {"bytes", "context", "embed", "time"}

(* The package of b.org/go-b is b, and its guessed name is go; the guess   *)
(* for z.org/z/v2 is z, and right.                                         *)
MCWords ==
  [p \in ToSet(MCPaths) |->
     CASE p = "a.org/a" -> <<"a">> [] p = "b.org/go-b" -> <<"go", "b">> [] p = "nats.go" -> <<"nats", "go">>
       [] p = "nats.go/jetstream" -> <<"jetstream">> [] p = "z.org/z/v2" -> <<"v2">> [] OTHER -> <<p>>]
MCParent == [p \in ToSet(MCPaths) |-> IF p = "z.org/z/v2" THEN "z" ELSE ""]
MCName ==
  [p \in ToSet(MCPaths) |->
     CASE p = "b.org/go-b" -> "b" [] p = "z.org/z/v2" -> "z" [] OTHER -> MCWords[p][1]]

SpecsOf(ps) == [i \in DOMAIN InOrder(ps) |-> SpecOf(InOrder(ps)[i])]
Singles(ps) == [i \in DOMAIN InOrder(ps) |-> Single(InOrder(ps)[i])]

StdSets == {{}, {"time"}, {"bytes", "time"}, {"bytes", "context"}, {"embed"}}
OtherSets == {S \cup {"nats.go"} : S \in SUBSET {"a.org/a", "nats.go/jetstream", "z.org/z/v2"}}

Around(decl) == <<Package, Blank>> \o decl \o <<Blank, Body>>

(* gofmt's groups; third-party imports in two groups; a path that is       *)
(* guessed wrong; declarations of their own.                               *)
MCFiles ==
  {Around(<<Open>> \o BlockBody(s \cup o) \o <<Close>>) : s \in StdSets, o \in OtherSets}
  \cup {Around(<<Open>> \o SpecsOf(s) \o <<Close, Blank>> \o Singles(o)) : s \in {{"time"}, {"bytes", "time"}}, o \in {{"nats.go"}}}
  \cup {Around(<<Open>> \o SpecsOf({"nats.go"}) \o <<Blank>> \o SpecsOf(o) \o <<Close>>) : o \in {{"a.org/a"}, {"z.org/z/v2"}}}
  \cup {Around(<<Open>> \o BlockBody({"time"} \cup o) \o <<Close>>) : o \in {{"b.org/go-b"}, {"b.org/go-b", "nats.go"}}}
  \cup {Around(Singles(o)) : o \in {{"nats.go"}, {"time", "nats.go"}}}
=============================================================================
