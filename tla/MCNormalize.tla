------------------------------ MODULE MCNormalize ------------------------------
(* Instances of Normalize for TLC. *)
EXTENDS Normalize

Text(x) == <<"text", x>>

(* A fully described source of every type, and two with labels only: some  *)
(* have the name of a member of the entry, one dates what has no date, one *)
(* what the service dated.                                                 *)
Bare(type, labels) ==
  [type |-> type, name |-> Text("n1"), path |-> Text("p1"), host |-> Empty,
   service |-> Empty, container |-> Empty, cluster |-> Empty, labels |-> labels]

SampleConfigs ==
  {[Bare(t, << >>) EXCEPT !.host = Text("h1"), !.service = Text("v1"),
                          !.container = Text("c1"), !.cluster = Text("k1")] :
     t \in {"file", "ssh", "aws", "gcp", "azure", "oci", "docker", "kubernetes", "https"}}
  \cup
  {Bare("file", [team |-> Text("t1"), source |-> Text("t2"), host |-> Text("t3"),
                 line |-> Text("t4"), filename |-> Text("t5"),
                 datetime |-> <<"rfc3339", 152>>]),
   Bare("azure", [team |-> Text("t1"), timestamp |-> <<"number", 40>>])}

Blank ==
  [json |-> {}, pairs |-> << >>, engine |-> [app |-> Empty, fields |-> << >>],
   syslog |-> NoHeader, first |-> Text("w")]

(* Lines that say nothing; that name an identity in every way a line can;  *)
(* that state a time in every unit, as the zero time, as a number too      *)
(* small or too large, at each limit of a unit, twice, and under two names.*)
SampleLines ==
  {Blank,
   [Blank EXCEPT !.json = {<<"team", Text("x")>>, <<"cluster", Text("x")>>,
                           <<"host", Text("x")>>, <<"host", Text("y")>>}],
   [Blank EXCEPT !.pairs = [service |-> Text("x"), source |-> Text("x"), time |-> <<"number", 9>>]],
   [Blank EXCEPT !.engine = [app |-> Text("cf"), fields |-> [host |-> Text("x")]]],
   [Blank EXCEPT !.syslog = [time |-> <<"rfc3339", 161>>, host |-> Text("x"), service |-> Dash]],
   [Blank EXCEPT !.json = {<<"time", <<"rfc3339", 0>>>>, <<"datetime", <<"number", 150>>>>}],
   [Blank EXCEPT !.json = {<<"timestamp", <<"number", 1>>>>, <<"eventTime", <<"number", 37>>>>}]}
  \cup {[Blank EXCEPT !.first = <<"number", n>>] : n \in {1, 2, 3, 4, 9, 15, 16, 40, 63, 64, 160, 255, 300}}
  \cup {[Blank EXCEPT !.first = <<"rfc3339", 144>>]}

SampleInstants == {128, 143, 144, 145, 160, 176}

SampleBounds ==
  [since : {Unknown, 144, 150}, until : {Unknown, 144, 160, 165}]
================================================================================
