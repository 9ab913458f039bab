------------------------------- MODULE MCPaging -------------------------------
(* Instances of Paging for TLC. *)
EXTENDS Paging

(* Empty, full and malformed pages, leading to any token, nowhere, or to a *)
(* token that is not a string; a response that is rejected, and one that   *)
(* never comes.                                                            *)
SamplePages ==
  [fault : {"none"}, rows : {<< >>, <<"ok", "ok">>}, next : Tokens \cup {"none"}]
  \cup [fault : {"none"}, rows : {<<"ok", "bad">>}, next : {"none"}]
  \cup [fault : {"none"}, rows : {<<"ok">>}, next : {"bad"}]
  \cup [fault : {"rejected", "silent"}, rows : {<<"ok">>}, next : {"none"}]

Plain ==
  [type |-> "https", region |-> "r", resource |-> "x", query |-> "q", url |-> "https",
   method |-> "", format |-> "", next_token_path |-> "", page_param |-> "",
   token_env |-> "", api_key_env |-> "", headers_env |-> {}]

Paged == [Plain EXCEPT !.next_token_path = "next", !.page_param = "cursor"]

(* Sources of every kind of client, and one for each rule of Validate that *)
(* refuses it.                                                             *)
SampleConfigs ==
  {Plain, Paged, [Paged EXCEPT !.method = "POST", !.api_key_env = "SET"],
   [Plain EXCEPT !.format = "text"], [Paged EXCEPT !.format = "ndjson"],
   [Plain EXCEPT !.type = "azure", !.url = "", !.token_env = "SET"],
   [Plain EXCEPT !.type = "gcp", !.url = "", !.token_env = "SET"],
   [Plain EXCEPT !.type = "aws"], [Plain EXCEPT !.type = "oci"]}
  \cup
  {[Plain EXCEPT !.next_token_path = "next"], [Paged EXCEPT !.method = "PUT"],
   [Plain EXCEPT !.url = "bad"], [Plain EXCEPT !.url = ""], [Plain EXCEPT !.format = "xml"],
   [Plain EXCEPT !.headers_env = {"UNSET"}], [Plain EXCEPT !.type = "gcp"]}
================================================================================
