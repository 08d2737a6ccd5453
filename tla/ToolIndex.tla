----------------------------- MODULE ToolIndex -----------------------------
(***************************************************************************)
(* Names of MCP tools (internal/tool/toolindex.go).  Two servers may offer *)
(* a tool of the same name; both are then advertised under their           *)
(* server-qualified names and the bare name leads nowhere.                 *)
(*                                                                         *)
(* A name is the sequence of its parts between double underscores, so      *)
(* that qualifying is appending, and a tool that is itself called          *)
(* "files__read" is the sequence that qualifying "read" with "files" makes.*)
(***************************************************************************)
EXTENDS Naturals, FiniteSets, SequencesExt

Qualified(server, tool) == server \o tool

(* What the servers offer: a server, the place of it in discovery order,   *)
(* one of its tools and the place of that in its list.  offers gives every *)
(* server's list, empty when it is not registered.                         *)
Offered(order, offers) ==
    UNION {{[server |-> order[i], rank |-> i, tool |-> offers[order[i]][j], at |-> j] :
               j \in DOMAIN offers[order[i]]} : i \in DOMAIN order}

Owners(offered, tool) == {o \in offered : o.tool = tool}

(* Mutant: two servers may share a bare name, a third may not.             *)
SharedByThree(offered) == {o.tool : o \in {p \in offered : Cardinality(Owners(offered, p.tool)) > 2}}

(* Bare names that are listed more than once.                              *)
Shared(offered) == {o.tool : o \in {p \in offered : Cardinality(Owners(offered, p.tool)) > 1}}

Advertised(shared, o) == IF o.tool \in shared THEN Qualified(o.server, o.tool) ELSE o.tool

First(claims) ==
    CHOOSE o \in claims : \A p \in claims : o.rank < p.rank \/ (o.rank = p.rank /\ o.at <= p.at)

(* The advertised names and where each leads.  A name that is claimed      *)
(* twice, because a tool's own name is another's qualified one, stays with *)
(* the first claim.                                                        *)
ToolMap(offered) ==
    LET shared == Shared(offered)
        Claims(n) == {o \in offered : Advertised(shared, o) = n}
    IN  [n \in {Advertised(shared, o) : o \in offered} |-> First(Claims(n))]

(* Servers whose tool a qualified name names although it is not, or no     *)
(* longer, advertised that way.                                            *)
Qualifying(order, offers, name) ==
    {i \in DOMAIN order :
        /\ IsPrefix(order[i], name)
        /\ SubSeq(name, Len(order[i]) + 1, Len(name)) \in Range(offers[order[i]])}

ByPrefix(order, offers, name) ==
    LET s == order[Min(Qualifying(order, offers, name))]
    IN  <<s, SubSeq(name, Len(s) + 1, Len(name))>>
=============================================================================
