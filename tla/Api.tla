-------------------------------- MODULE Api --------------------------------
(***************************************************************************)
(* The HTTP API: the middleware, the handlers and what each request runs   *)
(* and answers; what a request to /get asks for and is given, from a       *)
(* browser and from the client of another process; and validation, which   *)
(* chooses a body and a structure from its parameters.                     *)
(*                                                                         *)
(* "request" is the request under test.  Of a request to serve it says the *)
(* route, the method, whether the body is JSON, whether reference and body *)
(* can be read, a flag of the route, and how the operation ends.           *)
(***************************************************************************)
EXTENDS Naturals, Sequences

VARIABLE request

-----------------------------------------------------------------------------
\* An answer: the operation that was run, or "none", and the status codes written.
Nothing(code) == [op |-> "none", codes |-> <<code>>]
Runs(op, r, code) == [op |-> op, codes |-> <<IF r.end = "ok" THEN 200 ELSE code>>]

\* The methods a handler knows, and what it does in read-only mode.
Only(methods, r, answer) == IF r.method \in methods THEN answer ELSE Nothing(404)
NotReadOnly(r, answer) == IF r.ro THEN Nothing(403) ELSE answer      \* readOnlyResponse

\* UnmarshalParams: the JSON body of a POST or PUT.
UnmarshalParams(r, answer) == IF r.method \in {"POST", "PUT"} /\ r.json /\ r.badBody THEN Nothing(400) ELSE answer
Decoded(r, answer) == IF r.badBody THEN Nothing(400) ELSE answer
DecodedIfJSON(r, answer) == IF r.json /\ r.badBody THEN Nothing(400) ELSE answer
DsRefFromPath(r, answer) == IF r.badRef THEN Nothing(400) ELSE answer

\* RespondWithError.
ErrorCode(r) == CASE r.end = "absent" -> 404 [] r.end = "history" -> 422 [] OTHER -> 500

-----------------------------------------------------------------------------
\* Datasets.  A listing with a warning is a listing.
listHandler(r) == UnmarshalParams(r, [op |-> "List", codes |-> <<IF r.end \in {"ok", "warning"} THEN 200 ELSE 500>>])
ListHandler(r) == Only({"GET", "POST"}, r, NotReadOnly(r, listHandler(r)))

peerListHandler(r) == DsRefFromPath(r, Runs("List", r, 500))
PeerListHandler(r) == Only({"GET"}, r, peerListHandler(r))

\* With a form (formFileDataset) there is no reference to parse.
saveHandler(r) ==
  UnmarshalParams(r, IF (r.json /\ r.badRef) \/ (~r.json /\ r.badBody) THEN Nothing(400) ELSE Runs("Save", r, 500))
SaveHandler(r) == Only({"PUT", "POST"}, r, saveHandler(r))

\* The flag: a remote is given.
removeHandler(r) == UnmarshalParams(r, IF r.flag THEN Runs("RemoteRemove", r, 400) ELSE Runs("Remove", r, 500))
RemoveHandler(r) == Only({"DELETE", "POST"}, r, removeHandler(r))

getHandler(r) == UnmarshalParams(r, DsRefFromPath(r, Runs("Get", r, ErrorCode(r))))
GetHandler(r) == Only({"GET", "POST"}, r, getHandler(r))

diffHandler(r) == DecodedIfJSON(r, Runs("Diff", r, 500))
DiffHandler(r) == Only({"POST", "GET"}, r, NotReadOnly(r, diffHandler(r)))

changesHandler(r) == DecodedIfJSON(r, Runs("ChangeReport", r, 500))
ChangesHandler(r) == Only({"POST", "GET"}, r, NotReadOnly(r, changesHandler(r)))

pullHandler(r) == UnmarshalParams(r, Runs("Pull", r, 500))
PullHandler(r) == Only({"POST", "PUT"}, r, pullHandler(r))

renameHandler(r) == UnmarshalParams(r, Runs("Rename", r, 400))
RenameHandler(r) == Only({"POST", "PUT"}, r, renameHandler(r))

unpackHandler(r) == Runs("Unpack", r, 500)
UnpackHandler(r) == Only({"POST"}, r, Decoded(r, unpackHandler(r)))

-----------------------------------------------------------------------------
\* Working directories.
statusHandler(r) == DsRefFromPath(r, Runs("Status", r, IF r.end = "absent" THEN 400 ELSE 500))
StatusHandler(r) == NotReadOnly(r, Only({"GET"}, r, statusHandler(r)))

whatChangedHandler(r) == DsRefFromPath(r, Runs("WhatChanged", r, IF r.end = "history" THEN 422 ELSE 500))
WhatChangedHandler(r) == NotReadOnly(r, Only({"GET"}, r, whatChangedHandler(r)))

\* The flag: the dataset was made, and cannot be read back.
initHandler(r) == IF r.end = "ok" /\ r.flag THEN [op |-> "InitDataset", codes |-> <<500>>] ELSE Runs("InitDataset", r, 400)
InitHandler(r) == NotReadOnly(r, Only({"POST"}, r, initHandler(r)))

writeHandler(r) == DsRefFromPath(r, Decoded(r, Runs("Write", r, 400)))
WriteHandler(r) == NotReadOnly(r, Only({"POST"}, r, writeHandler(r)))

checkoutHandler(r) == DsRefFromPath(r, Runs("Checkout", r, 500))
CheckoutHandler(r) == NotReadOnly(r, Only({"POST"}, r, checkoutHandler(r)))

restoreHandler(r) == DsRefFromPath(r, Runs("Restore", r, 500))
RestoreHandler(r) == NotReadOnly(r, Only({"POST"}, r, restoreHandler(r)))

-----------------------------------------------------------------------------
\* The profile.  The photo handlers do not look at the error of a JSON body.
getProfileHandler(r) == Runs("GetProfile", r, 500)
saveProfileHandler(r) == Decoded(r, Runs("SaveProfile", r, 500))
ProfileHandler(r) == CASE r.method = "GET" -> NotReadOnly(r, getProfileHandler(r))
                       [] r.method = "POST" -> saveProfileHandler(r)
                       [] OTHER -> Nothing(404)

getProfilePhotoHandler(r) == Runs("ProfilePhoto", r, 500)
setProfilePhotoHandler(r) == IF ~r.json /\ r.badBody THEN Nothing(400) ELSE Runs("SetProfilePhoto", r, 500)
ProfilePhotoHandler(r) == CASE r.method = "GET" -> getProfilePhotoHandler(r)
                            [] r.method \in {"PUT", "POST"} -> setProfilePhotoHandler(r)
                            [] OTHER -> Nothing(404)

getPosterHandler(r) == Runs("PosterPhoto", r, 500)
setPosterHandler(r) == IF ~r.json /\ r.badBody THEN Nothing(400) ELSE Runs("SetPosterPhoto", r, 500)
PosterHandler(r) == CASE r.method = "GET" -> getPosterHandler(r)
                      [] r.method \in {"PUT", "POST"} -> setPosterHandler(r)
                      [] OTHER -> Nothing(404)

-----------------------------------------------------------------------------
\* Peers.
listPeersHandler(r) == Runs("PeerList", r, 500)
PeersHandler(r) == Only({"GET"}, r, NotReadOnly(r, listPeersHandler(r)))
peerHandler(r) == DsRefFromPath(r, Runs("PeerInfo", r, 500))
PeerHandler(r) == Only({"GET"}, r, NotReadOnly(r, peerHandler(r)))
connectToPeerHandler(r) == IF r.badRef THEN Nothing(400) ELSE Runs("ConnectToPeer", r, 500)
ConnectToPeerHandler(r) == Only({"GET"}, r, connectToPeerHandler(r))
listConnectionsHandler(r) == Runs("Connections", r, 500)
ConnectionsHandler(r) == Only({"GET"}, r, NotReadOnly(r, listConnectionsHandler(r)))

\* Remotes and the registry.  A refused ProveProfileKey goes on all the same.
listPublicHandler(r) == Runs("List", r, 500)
PushHandler(r) == NotReadOnly(r,
  CASE r.method = "GET" -> listPublicHandler(r)
    [] r.badRef -> Nothing(400)
    [] r.method = "POST" -> Runs("Push", r, 500)
    [] r.method = "DELETE" -> Runs("RemoteRemove", r, 500)
    [] OTHER -> Nothing(404))
feedsHandler(r) == Runs("Feeds", r, 500)
FeedsHandler(r) == Only({"GET"}, r, feedsHandler(r))
previewHandler(r) == Runs("Preview", r, 400)
DatasetPreviewHandler(r) == Only({"GET"}, r, previewHandler(r))

CreateProfileHandler(r) == NotReadOnly(r, Only({"POST"}, r, Decoded(r, Runs("CreateProfile", r, 500))))
ProveProfileKeyHandler(r) ==
  LET a == Only({"POST"}, r, Decoded(r, Runs("ProveProfileKey", r, 500))) IN
  IF r.ro THEN [a EXCEPT !.codes = <<403>> \o @] ELSE a

\* The rest.  Apply and render take every method; a history that is not found, and was
\* not asked for as a local one (the flag), is an empty one.
logHandler(r) == DsRefFromPath(r, [op |-> "Log", codes |-> <<
  CASE r.end = "ok" \/ (r.end = "absent" /\ ~r.flag) -> 200 [] r.end = "history" -> 422 [] OTHER -> 500>>])
LogHandler(r) == Only({"GET"}, r, logHandler(r))
RenderHandler(r) == DecodedIfJSON(r, Runs(IF r.flag THEN "RenderViz" ELSE "RenderReadme", r, 500))
searchHandler(r) == DecodedIfJSON(r, Runs("Search", r, 500))
SearchHandler(r) == Only({"GET"}, r, searchHandler(r))
queryHandler(r) == DecodedIfJSON(r, Runs("SQL", r, 422))
QueryHandler(r) == NotReadOnly(r, Only({"GET", "POST"}, r, queryHandler(r)))
ApplyHandler(r) == Decoded(r, Runs("Apply", r, 400))
HandleIPFSPath(r) == NotReadOnly(r, Runs("File", r, 500))
HomeHandler(r) == Nothing(IF r.flag THEN 404 ELSE 200)

Routes == {"/", "ipfs", "profile", "photo", "poster", "peers", "peer", "connect", "connections", "list", "peerlist",
           "save", "get", "remove", "rename", "diff", "changes", "unpack", "push", "pull", "feeds", "preview",
           "status", "whatchanged", "init", "checkout", "restore", "fsiwrite", "render", "history",
           "registry/new", "registry/prove", "search", "sql", "apply"}

NewServerRoutes(r) ==
  CASE r.route = "/" -> HomeHandler(r)               [] r.route = "ipfs" -> HandleIPFSPath(r)
    [] r.route = "profile" -> ProfileHandler(r)      [] r.route = "photo" -> ProfilePhotoHandler(r)
    [] r.route = "poster" -> PosterHandler(r)        [] r.route = "peers" -> PeersHandler(r)
    [] r.route = "peer" -> PeerHandler(r)            [] r.route = "connect" -> ConnectToPeerHandler(r)
    [] r.route = "connections" -> ConnectionsHandler(r)
    [] r.route = "list" -> ListHandler(r)            [] r.route = "peerlist" -> PeerListHandler(r)
    [] r.route = "save" -> SaveHandler(r)            [] r.route = "get" -> GetHandler(r)
    [] r.route = "remove" -> RemoveHandler(r)        [] r.route = "rename" -> RenameHandler(r)
    [] r.route = "diff" -> DiffHandler(r)            [] r.route = "changes" -> ChangesHandler(r)
    [] r.route = "unpack" -> UnpackHandler(r)        [] r.route = "push" -> PushHandler(r)
    [] r.route = "pull" -> PullHandler(r)            [] r.route = "feeds" -> FeedsHandler(r)
    [] r.route = "preview" -> DatasetPreviewHandler(r) [] r.route = "status" -> StatusHandler(r)
    [] r.route = "whatchanged" -> WhatChangedHandler(r) [] r.route = "init" -> InitHandler(r)
    [] r.route = "checkout" -> CheckoutHandler(r)    [] r.route = "restore" -> RestoreHandler(r)
    [] r.route = "fsiwrite" -> WriteHandler(r)       [] r.route = "render" -> RenderHandler(r)
    [] r.route = "history" -> LogHandler(r)          [] r.route = "registry/new" -> CreateProfileHandler(r)
    [] r.route = "registry/prove" -> ProveProfileKeyHandler(r) [] r.route = "search" -> SearchHandler(r)
    [] r.route = "sql" -> QueryHandler(r)            [] r.route = "apply" -> ApplyHandler(r)

\* MUTANT: only what removes is kept out.
readOnlyCheckDelete(r) == ~r.ro \/ r.method # "DELETE"

readOnlyCheck(r) == ~r.ro \/ r.method \in {"GET", "OPTIONS"}

\* Middleware.
mwFunc(r) == CASE r.method = "OPTIONS" -> Nothing(200)
               [] ~readOnlyCheck(r) -> Nothing(403)
               [] OTHER -> NewServerRoutes(r)

-----------------------------------------------------------------------------
(***************************************************************************)
(* What /get gives.  Content is what it is of and how it is written.       *)
(* "ds": what the dataset has, and whether it is linked.                   *)
(***************************************************************************)
Selectors == {"", "body", "meta", "stats", "readme.script", "nosuch"}
Formats == {"", "json", "csv", "zip", "yaml"}
Fails == [ok |-> FALSE, of |-> "none", as |-> "none"]
Content(of, as) == [ok |-> TRUE, of |-> of, as |-> as]

\* parseSelector: the extension of a selector is the format; "_" is one that cannot be.
parseSelector(name, ext) ==
  IF name = "_" THEN Fails ELSE [ok |-> TRUE, selector |-> name, format |-> IF ext \in {"json", "csv", "zip"} THEN ext ELSE ""]

\* MUTANT: the header wins over the format that was asked for.
UnmarshalFromRequestHeaderFirst(p, u) ==
  LET sel == IF u.name = "" \/ p.selector # "" THEN [ok |-> TRUE, selector |-> p.selector, format |-> p.format] ELSE parseSelector(u.name, u.ext)
      fmt == IF sel.ok /\ sel.format = "" THEN u.format ELSE IF sel.ok THEN sel.format ELSE "" IN
  IF u.user = "me" \/ ~sel.ok THEN [ok |-> FALSE]
  ELSE IF u.acceptCsv THEN [ok |-> TRUE, selector |-> "body", format |-> "csv", all |-> TRUE]
  ELSE IF fmt \notin {"", "json", "csv", "zip"} THEN [ok |-> FALSE]
  ELSE [ok |-> TRUE, selector |-> sel.selector, format |-> IF fmt = "" THEN "json" ELSE fmt, all |-> TRUE]

\* GetParams.UnmarshalFromRequest and SetNonZeroDefaults: p is what the body said, u the URL
\* and the headers.  "me" is refused; whatever was said of pages, all is given.
UnmarshalFromRequest(p, u) ==
  LET sel == IF u.name = "" \/ p.selector # "" THEN [ok |-> TRUE, selector |-> p.selector, format |-> p.format] ELSE parseSelector(u.name, u.ext)
      fmt == IF sel.ok /\ sel.format = "" THEN u.format ELSE IF sel.ok THEN sel.format ELSE "" IN
  IF u.user = "me" \/ ~sel.ok THEN [ok |-> FALSE]
  ELSE IF u.acceptCsv THEN IF fmt \notin {"", "csv"} THEN [ok |-> FALSE] ELSE [ok |-> TRUE, selector |-> "body", format |-> "csv", all |-> TRUE]
  ELSE IF fmt \notin {"", "json", "csv", "zip"} THEN [ok |-> FALSE]
  ELSE [ok |-> TRUE, selector |-> sel.selector, format |-> IF fmt = "" THEN "json" ELSE fmt, all |-> TRUE]

\* scriptFileSelection.
scriptFileSelection(ds, selector) == selector = "readme.script" /\ "readme" \in ds.has

\* The part of Get that chooses what to give (ApplyPath: a component there is, or an error).
GetContent(p, ds) ==
  LET page == IF p.all THEN "all" ELSE "page" IN
  IF p.format = "zip" THEN Content("zip", "zip")
  ELSE IF p.selector = "body" THEN IF p.format \in {"json", "csv"} /\ "body" \in ds.has THEN Content(<<"body", page>>, p.format) ELSE Fails
  ELSE IF scriptFileSelection(ds, p.selector) THEN Content("readme.script", "text")
  ELSE IF p.selector = "stats" THEN IF "body" \in ds.has THEN Content("stats", "json") ELSE Fails
  ELSE IF p.selector \notin {"", "meta"} \/ (p.selector = "meta" /\ "meta" \notin ds.has) THEN Fails
  ELSE IF p.format = "json" THEN Content(IF p.selector = "" THEN "head" ELSE p.selector, "json")
  ELSE IF p.format \in {"yaml", ""} THEN Content(IF p.selector = "" THEN "head" ELSE p.selector, "yaml")
  ELSE Fails

\* replyWithGetResponse: JSON is wrapped, and what is not JSON cannot be; the head is sent as
\* a reference with the dataset in it.
replyWithGetResponse(p, c) ==
  IF ~c.ok THEN Fails
  ELSE IF p.format = "json" /\ p.selector # "" THEN IF c.as = "json" THEN c ELSE Fails
  ELSE IF p.format = "json" THEN Content("ref", "json")
  ELSE c

\* A request to /get, with params p in its body.
Served(p, u, ds) == LET q == UnmarshalFromRequest(p, u) IN
                    IF q.ok THEN replyWithGetResponse(q, GetContent(q, ds)) ELSE Fails

\* Get of a process that has no repo of its own.  JSON answers are decoded (a DataResponse, or
\* a GetResult, which has none of the fields of the reference that is sent); of every other
\* answer, an error too, the bytes are dropped (do).
GetOverHTTP(p, user, ds) ==
  LET u == [user |-> user, name |-> "", ext |-> "", format |-> "", acceptCsv |-> FALSE]
      a == Served(p, u, ds) IN
  IF p.format # "json" THEN Content("nothing", "nothing")
  ELSE IF ~a.ok THEN Fails
  ELSE IF p.selector = "" THEN Content("nothing", "nothing")
  ELSE a

-----------------------------------------------------------------------------
(***************************************************************************)
(* Validate.  v: which of ref, body file, schema and structure are given;  *)
(* the dataset: what it has, "structure" and "schema" among it.            *)
(***************************************************************************)
\* MUTANT: a body file is only used without a reference.
ValidateOwnBody(v, ds) ==
  LET body == IF v.body /\ ~v.ref THEN "given" ELSE IF "body" \in ds.has THEN "own" ELSE "nil" IN
  IF (v.schema /\ v.structure) \/ (~v.ref /\ ~(v.body /\ (v.schema \/ v.structure))) \/ body = "nil" THEN [ok |-> FALSE]
  ELSE [ok |-> TRUE, body |-> body, against |-> IF v.schema THEN "schema" ELSE IF v.structure THEN "structure" ELSE "own"]

\* A reference that comes with a body and a schema is not resolved, and then loaded without a
\* path.  The structure of a dataset without one is taken before it is inferred: nil.
Validate(v, ds) ==
  LET given  == v.schema \/ v.structure
      body   == IF v.body THEN "given" ELSE IF "body" \in ds.has THEN "own" ELSE "nil"
      inferred == "structure" \notin ds.has \/ "schema" \notin ds.has
      against == IF v.schema THEN "schema" ELSE IF v.structure THEN "structure"
                 ELSE IF "structure" \in ds.has THEN IF inferred THEN "inferred" ELSE "own" ELSE "nil" IN
  IF v.schema /\ v.structure THEN [ok |-> FALSE]
  ELSE IF ~v.ref /\ ~(v.body /\ given) THEN [ok |-> FALSE]
  ELSE IF v.ref /\ v.body /\ given THEN [ok |-> FALSE]
  ELSE IF ~given /\ inferred /\ "body" \notin ds.has THEN [ok |-> FALSE]      \* InferStructure
  ELSE IF body = "nil" \/ against = "nil" THEN [ok |-> FALSE]                  \* base.Validate
  ELSE [ok |-> TRUE, body |-> body, against |-> against]

-----------------------------------------------------------------------------
NoRequestYet == [kind |-> "none"]

ApiInit ==
  \/ \E route \in Routes, method \in {"GET", "POST", "PUT", "DELETE", "OPTIONS"}, ro, json, badBody, badRef, flag \in BOOLEAN,
        end \in {"ok", "fail", "absent", "history", "warning"} :
       request = [kind |-> "serve", route |-> route, method |-> method, ro |-> ro, json |-> json, badBody |-> badBody,
                  badRef |-> badRef, flag |-> flag, end |-> end]
  \/ \E user \in {"me", "peer"}, name \in Selectors \union {"_"}, ext \in {"", "json", "csv", "zip"}, format \in Formats,
        acceptCsv \in BOOLEAN, has \in SUBSET {"body", "meta", "readme"} :
       request = [kind |-> "url", ds |-> [has |-> has],
                  u |-> [user |-> user, name |-> name, ext |-> ext, format |-> format, acceptCsv |-> acceptCsv]]
  \/ \E user \in {"me", "peer"}, selector \in Selectors, format \in Formats, all \in BOOLEAN,
        has \in SUBSET {"body", "meta", "readme"} :
       request = [kind |-> "client", user |-> user, p |-> [selector |-> selector, format |-> format, all |-> all], ds |-> [has |-> has]]
  \/ \E ref, body, schema, structure \in BOOLEAN, has \in SUBSET {"body", "structure", "schema"} :
       /\ "schema" \in has => "structure" \in has
       /\ request = [kind |-> "validate", v |-> [ref |-> ref, body |-> body, schema |-> schema, structure |-> structure], ds |-> [has |-> has]]

-----------------------------------------------------------------------------
\* The operations that change datasets, working directories, profiles or remotes.
Writes == {"Save", "Remove", "RemoteRemove", "Rename", "Pull", "Push", "SaveProfile", "SetProfilePhoto", "SetPosterPhoto",
           "InitDataset", "Write", "Checkout", "Restore", "CreateProfile", "ProveProfileKey"}

\* A read-only server runs nothing that writes, on any route and with any method; a request that
\* is refused runs nothing; an operation that fails is not answered with 200, but for a history
\* that is not found; and one that is done is, but for an init that cannot be read
\* back (api.mwFunc, readOnlyCheck and the handlers).
ServedAsTold ==
  request.kind = "serve" =>
    LET a == mwFunc(request) IN
    /\ request.ro => a.op \notin Writes
    /\ a.codes[1] \in {400, 403} /\ request.end = "ok" => a.op = "none"
    /\ (a.op # "none" /\ a.codes[1] = 200) => request.end = "ok" \/ (a.op = "List" /\ request.end = "warning")
                                                           \/ (a.op = "Log" /\ request.end = "absent")
    /\ (a.op # "none" /\ request.end = "ok") => a.codes = <<200>> \/ a.op = "InitDataset"

\* What /get gives is what its URL asks for, in the format it asks for, or an error: never another
\* component, nor another format but for stats and scripts, which have one.  And what a client gets over HTTP in JSON for a selector is what Get would
\* have given it locally, without pages (GetParams.UnmarshalFromRequest, Get,
\* replyWithGetResponse, HTTPClient.do).
GetGivesAsked ==
  /\ request.kind = "url" =>
       LET u == request.u
           got == Served([selector |-> "", format |-> ""], u, request.ds)
           format == IF u.name # "" /\ u.ext # "" THEN u.ext ELSE u.format
           want == IF u.acceptCsv THEN "csv" ELSE IF format = "" THEN "json" ELSE format IN
       got.ok => /\ got.as = want \/ (u.name \in {"stats", "readme.script"} /\ ~u.acceptCsv)
                 /\ u.acceptCsv => got.of = <<"body", "all">> /\ format \in {"", "csv"}
                 /\ (~u.acceptCsv /\ want # "zip") =>
                      got.of = CASE u.name = "" -> "ref" [] u.name = "body" -> <<"body", "all">> [] OTHER -> u.name
  /\ (request.kind = "client" /\ request.p.format = "json" /\ request.p.selector # "") =>
       LET local == GetContent([request.p EXCEPT !.all = TRUE], request.ds)
           wire  == GetOverHTTP(request.p, request.user, request.ds) IN
       /\ wire.ok => wire = local
       /\ (local.ok /\ local.as = "json" /\ request.user # "me") => wire.ok

\* Validate checks the body and the schema that were given, and the dataset's own only where none
\* was; it never checks against nothing; and it refuses when there is too little, too much, or (as
\* the code is) a reference beside a body and a schema, or a dataset without a
\* structure (DatasetMethods.Validate).
ValidatesWhatIsGiven ==
  request.kind = "validate" =>
    LET v == request.v  has == request.ds.has  got == Validate(v, request.ds) IN
    /\ got.ok => /\ (got.body = "given") = v.body
                 /\ (got.against \in {"schema", "structure"}) = (v.schema \/ v.structure)
                 /\ got.against = "own" => "schema" \in has
    /\ (v.ref /\ ~(v.schema /\ v.structure) /\ ~(v.body /\ (v.schema \/ v.structure)) /\ {"body", "structure"} \subseteq has) => got.ok

\* Requests are answered for what they ask: every route and method (ServedAsTold), the selector and
\* format of /get (GetGivesAsked), what is given to validate (ValidatesWhatIsGiven).
RequestsAnswered == ServedAsTold /\ GetGivesAsked /\ ValidatesWhatIsGiven
=============================================================================
