------------------------------ MODULE SourceConfig -----------------------------
(***************************************************************************)
(* sources.Source and what Validate accepts of it; and what queryHTTP, the *)
(* reader of most remote sources, makes of an accepted one.  A source is a *)
(* record of texts, "" when the member is absent.  Of a URL only whether   *)
(* it is https and well formed matters ("https" or "bad"); headers_env is  *)
(* the set of the variables it names.                                      *)
(***************************************************************************)
EXTENDS Integers

CONSTANT Env   \* the environment variables that are set

Required ==
  [file       |-> {"path"},
   ssh        |-> {"path", "host", "user", "key_file", "known_hosts"},
   docker     |-> {"container"},
   kubernetes |-> {"context", "namespace", "pod", "container"},
   aws        |-> {"region", "resource"},
   gcp        |-> {"resource", "token_env"},
   azure      |-> {"resource", "query", "token_env"},
   oci        |-> {"region", "query"},
   https      |-> {"url"},
   darkapi    |-> {"url"}]

(* Here and below a definition named Mutant... is a plausible bug in the    *)
(* definition that follows it: no specification uses it; replacing the      *)
(* definition by it must violate a property.                                *)
MutantAccepted(s) ==
  /\ s.type \in DOMAIN Required /\ \A f \in Required[s.type] : s[f] # ""
  /\ s.url \in {"", "https"}
  /\ s.method \in {"", "GET", "POST"} /\ s.format \in {"", "json", "ndjson", "text"}
  /\ ({s.token_env, s.api_key_env} \ {""}) \cup s.headers_env \subseteq Env

Accepted(s) ==
  /\ s.type \in DOMAIN Required /\ \A f \in Required[s.type] : s[f] # ""
  /\ s.url \in {"", "https"}
  /\ s.method \in {"", "GET", "POST"} /\ s.format \in {"", "json", "ndjson", "text"}
  /\ s.next_token_path # "" <=> s.page_param # ""
  /\ ({s.token_env, s.api_key_env} \ {""}) \cup s.headers_env \subseteq Env
--------------------------------------------------------------------------------
Endpoint(s) == IF s.url = "" /\ s.type \in {"gcp", "azure"} THEN "https" ELSE s.url

Method(s) ==
  IF s.type \in {"gcp", "azure"} THEN "POST" ELSE IF s.method = "" THEN "GET" ELSE s.method

NextPath(s)  == IF s.type = "gcp" THEN "nextPageToken" ELSE s.next_token_path
PageParam(s) == IF s.type = "gcp" THEN "pageToken" ELSE s.page_param

(* The token travels in the query of a GET or in the body, which only a    *)
(* POST sends.                                                             *)
CarriesToken(s) ==
  \/ s.type \in {"aws", "oci"}
  \/ PageParam(s) # "" /\ Method(s) \in {"GET", "POST"}

ClientKinds ==
  {"http",    \* JSON, page after page
   "unpaged", \* JSON, one response
   "text",    \* lines, one response
   "mixed",   \* lines, but with a path to the next token
   "azure", "aws", "oci"}

Client(s) ==
  CASE s.type \in {"aws", "oci"} -> s.type
    [] s.type \notin {"aws", "oci"} /\ s.format \in {"text", "ndjson"} ->
         IF NextPath(s) = "" THEN "text" ELSE "mixed"
    [] s.type = "azure" /\ s.format \notin {"text", "ndjson"} -> "azure"
    [] OTHER -> IF NextPath(s) = "" THEN "unpaged" ELSE "http"
================================================================================
