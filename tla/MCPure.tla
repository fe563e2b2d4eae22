------------------------------- MODULE MCPure -------------------------------
(* The parts that keep no state of their own, side by side for TLC: a        *)
(* behaviour passes frames of pktline through a stream, makes one call of    *)
(* multibase, or sends one request to the git routes.                        *)
EXTENDS Pktline, Multibase, GitRoutes

(* Every prefix, with no byte, one, and all that the longest frame has; no   *)
(* number; less than a prefix.                                               *)
MCForeign ==
  {Prefix(n) \o Payload(k) : n \in 0 .. 15, k \in {0, 1, 11}}
    \cup {<<0, Base, 0, 0>>, <<1, 0>>}

(* Bytes of two bits: the four prefixes in the pattern of the real ones.     *)
MCKeyPrefix ==
  [Ed25519Pub |-> <<3, 1>>, Ed25519Priv |-> <<1, 2>>, Secp256k1Pub |-> <<2, 1>>,
   P256Pub |-> <<1, 3>>]

-----------------------------------------------------------------------------
(* ReposDir is the directory /r, or a link to /d or to the root.  It holds a *)
(* repository a, a file f and l, a link to some place; /o is a directory     *)
(* outside of the first two.                                                 *)
MCReposDir == <<"r">>

Node(kind)   == [kind |-> kind, target |-> <<>>]
Link(target) == [kind |-> "link", target |-> target]

Tree(real, l) ==
  LET at(n) == Append(real, n)
      paths == {<<"r">>, real, at("a"), at("f"), at("l"), <<"o">>, <<"o", "a">>}
  IN  [p \in paths |->
         CASE p = at("l") -> Link(l)
           [] p = at("f") -> Node("file")
           [] p = <<"r">> /\ real # p -> Link(real)
           [] OTHER -> Node("dir")]

Targets == {<<"o">>, <<"r">>, <<"d">>, <<"r", "a">>, <<"r", "l">>, <<"o", "x">>}

MCFileSystems == {Tree(real, l) : real \in {<<"r">>, <<"d">>, <<>>}, l \in Targets}

MCRepos == UNION {[1 .. n -> {"", ".", "..", "a", "f", "l"}] : n \in 1 .. 3}

-----------------------------------------------------------------------------
PureInit == Init /\ MultibaseInit /\ GitRoutesInit

Streaming == wire # <<>> \/ closed

(* The others run with one file system, which they do not look at.           *)
AnyFs == fs = CHOOSE f \in FileSystems : TRUE

PureNext ==
  \/ /\ AnyFs /\ call = <<>> /\ request = <<>>
     /\ Next
     /\ UNCHANGED <<call, fs, request>>
  \/ /\ AnyFs /\ ~Streaming /\ request = <<>>
     /\ MultibaseNext
     /\ UNCHANGED <<vars, fs, request>>
  \/ /\ ~Streaming /\ call = <<>>
     /\ GitRoutesNext
     /\ UNCHANGED <<vars, call>>

PureSpec == PureInit /\ [][PureNext]_<<vars, call, fs, request>>
=============================================================================
