-------------------------------- MODULE Browse --------------------------------
(***************************************************************************)
(* The browse pages of one repository, as a reader follows their links     *)
(* while pushes move, create and delete the branches.  A page is rendered  *)
(* inside the worker by several git calls (internal/browse/pages.go,       *)
(* git.go, readme.go); pushes do not pass through the worker, so that they *)
(* fall between any two calls.                                             *)
(*                                                                         *)
(* A branch is what git log lists for it, the tip first; an absent branch  *)
(* lists nothing.  Of a tree, only the README at its root is told apart.   *)
(***************************************************************************)
EXTENDS Integers, FiniteSets, Sequences, Functions

CONSTANTS
  Names,       \* sequence: branches and tags, in the order of for-each-ref
  HEAD,        \* the branch that HEAD names, which may be unborn
  Main,        \* "main", the ref of last resort
  PageSize,    \* pageSizeCommits
  MaxCommits,  \* bound: commits ever pushed
  Nothing

VARIABLES
  branch,  \* name -> its log
  pushed,  \* number of commits pushed so far
  shown,   \* the page the reader looks at
  req,     \* the reader's request
  walk     \* history: the reader's way through the log

pages == <<branch, pushed, shown, req, walk>>

Refs == Range(Names)

Lists(ref) == IF ref \in Refs THEN branch[ref] ELSE <<>>

Exists(ref) == Lists(ref) # <<>>

\* refs: the names in its ref selector; size: the number of commits it lists; lost:
\* names that a push has deleted, rewound or taken the README from since the
\* rendering of the page began (of a page that is shown: the names in its links).
NoPage == [kind |-> Nothing, ref |-> Nothing, refs |-> {}, page |-> 0, size |-> 0, readme |-> FALSE, lost |-> {}]

\* fresh: the URL names no ref; excused: it may lead to a ref that is not there,
\* because there was no branch, or a default took the place of a failed git call.
NoRequest ==
  [kind |-> Nothing, ref |-> Nothing, refs |-> {}, page |-> 0, size |-> 0, readme |-> FALSE, lost |-> {},
   calls |-> <<>>, missing |-> FALSE, fresh |-> TRUE, excused |-> FALSE]

\* left: of the commits the ref had when the walk began, those not seen yet.
NoWalk == [ref |-> Nothing, left |-> {}, back |-> FALSE]

WebInit ==
  /\ branch = [n \in Refs |-> <<>>]
  /\ pushed = 0
  /\ shown = NoPage
  /\ req = NoRequest
  /\ walk = NoWalk

-----------------------------------------------------------------------------
(* Pushes: they run in their own processes. *)

Linked(page) == {page.ref} \cup page.refs

Lose(n) ==
  /\ shown' = IF n \in Linked(shown) THEN [shown EXCEPT !.lost = @ \cup {n}] ELSE shown
  /\ req' = IF req.calls # <<>> /\ req.kind \notin {"diff", "rawDiff"}
            THEN [req EXCEPT !.lost = @ \cup {n}] ELSE req

\* The log with a commit more, at place i.
ListedIn(log, i, c) == SubSeq(log, 1, i - 1) \o <<c>> \o SubSeq(log, i, Len(log))

\* A new tip, with or without a README.  A merge also brings a commit that git
\* log lists further down.
Push(n) ==
  \E readme \in BOOLEAN, merged \in BOOLEAN, i \in 1..(Len(branch[n]) + 1) :
    LET tip == [id |-> pushed + 1, readme |-> readme]
        old == [id |-> pushed + 2, readme |-> FALSE]
        log == IF merged THEN ListedIn(branch[n], i, old) ELSE branch[n]
    IN  /\ i = 1 \/ merged
        /\ merged => branch[n] # <<>>
        /\ pushed' = pushed + (IF merged THEN 2 ELSE 1)
        /\ pushed' <= MaxCommits
        /\ branch' = [branch EXCEPT ![n] = <<tip>> \o log]
        /\ IF branch[n] # <<>> /\ Head(branch[n]).readme /\ ~readme
           THEN Lose(n) ELSE UNCHANGED <<shown, req>>
        /\ UNCHANGED walk

\* A forced push back to the commit before the tip; with one commit, a deletion.
MoveBack(n) ==
  /\ branch[n] # <<>>
  /\ branch' = [branch EXCEPT ![n] = Tail(@)]
  /\ Lose(n)
  /\ walk' = [walk EXCEPT !.back = @ \/ walk.ref = n]
  /\ UNCHANGED pushed

-----------------------------------------------------------------------------
(* The handlers, as the calls of their render functions *)

\* defaultRef, when the URL names no ref.
defaultRef(ref) == IF ref = Nothing THEN <<"symbolic-ref">> ELSE <<>>

handleRepoHome(ref) ==
  <<"hasRef">> \o defaultRef(ref) \o <<"refs", "commitLog", "findReadme", "treeEntries">>

handleLog(ref) == defaultRef(ref) \o <<"refs", "commitLog">>

handleTree(ref) == defaultRef(ref) \o <<"refs", "treeEntries">>

handleBlob(ref) == defaultRef(ref) \o <<"blobAt">>

handleRaw(ref) == defaultRef(ref) \o <<"blobAt">>

\* For the page, a second trip through the channel renders what the first has read.
handleDiff(raw) == IF raw THEN <<"diffOf">> ELSE <<"diffOf", "submit">>

Handler(kind, ref) ==
  CASE kind = "home" -> handleRepoHome(ref)
    [] kind = "log"  -> handleLog(ref)
    [] kind = "tree" -> handleTree(ref)
    [] kind = "blob" -> handleBlob(ref)
    [] kind = "raw"  -> handleRaw(ref)
    [] kind = "diff" -> handleDiff(FALSE)
    [] kind = "rawDiff" -> handleDiff(TRUE)

Unborn == \A n \in Refs : ~Exists(n)

Request(kind, ref, page) ==
  /\ req.calls = <<>>
  /\ req' = [NoRequest EXCEPT !.kind = kind, !.ref = ref, !.page = page, !.fresh = ref = Nothing,
               !.excused = kind # "home" /\ Unborn, !.calls = <<"submit">> \o Handler(kind, ref)]
  /\ UNCHANGED <<branch, pushed, shown>>

\* The reader types the URL of a page.
Open ==
  /\ \E kind \in {"home", "log", "tree"} : Request(kind, Nothing, 0)
  /\ walk' = NoWalk

\* The tabs of the refbar, and its selector.
FollowTab ==
  /\ shown.kind \in {"home", "log", "tree"}
  /\ \/ Request("home", Nothing, 0)
     \/ \E kind \in {"log", "tree"} : Request(kind, shown.ref, 0)
     \/ \E n \in shown.refs : Request("tree", n, 0)
  /\ walk' = NoWalk

\* The links of a page: to a commit, to a file, to its bytes.
FollowLink ==
  /\ \/ shown.kind \in {"home", "log"} /\ shown.size # 0 /\ Request("diff", Nothing, 0)
     \/ shown.kind = "diff" /\ Request("rawDiff", Nothing, 0)
     \/ shown.kind \in {"home", "tree"} /\ shown.readme /\ Request("blob", shown.ref, 0)
     \/ shown.kind = "blob" /\ Request("raw", shown.ref, 0)
  /\ walk' = NoWalk

\* Mutant of FollowOlder: the pager forgets the ref.
FollowOlderNoRef ==
  /\ shown.kind = "log" /\ shown.size = PageSize
  /\ Request("log", Nothing, shown.page + 1)
  /\ UNCHANGED walk

\* The pager of the commit list: a full page may have older commits behind it.
FollowOlder ==
  /\ shown.kind = "log" /\ shown.size = PageSize
  /\ Request("log", shown.ref, shown.page + 1)
  /\ UNCHANGED walk

\* A page without commits has no pager.
FollowNewer ==
  /\ shown.kind = "log" /\ shown.size # 0 /\ shown.page # 0
  /\ Request("log", shown.ref, shown.page - 1)
  /\ UNCHANGED walk

-----------------------------------------------------------------------------
(* The calls *)

Call(call) == req.calls # <<>> /\ Head(req.calls) = call

\* The handler goes on with the next call.
Proceed(r) == req' = [r EXCEPT !.calls = Tail(@)]

\* An error or the empty-repository page ends the request; the links that the
\* reader has are those of the page before.
Answer == req' = NoRequest /\ UNCHANGED shown

\* The ref or the file is not there: git fails, and the answer is a 500.
Missing ==
  /\ req' = [NoRequest EXCEPT !.missing = TRUE, !.kind = req.kind, !.ref = req.ref, !.lost = req.lost,
                               !.fresh = req.fresh, !.excused = req.excused]
  /\ UNCHANGED shown

\* The last call ends it with the page; raw bytes are an attachment.
Show(r) ==
  IF Len(r.calls) > 1
  THEN Proceed(r) /\ UNCHANGED shown
  ELSE /\ req' = NoRequest
       /\ shown' = IF r.kind \in {"raw", "rawDiff"} THEN shown
                   ELSE [kind |-> r.kind, ref |-> r.ref, refs |-> r.refs, page |-> r.page,
                         size |-> r.size, readme |-> r.readme, lost |-> r.lost \cap Linked(r)]

world == <<branch, pushed>>

\* renderAction submits the action: the channel is full, or serve shuts down.
Submit ==
  /\ Call("submit")
  /\ Show(req) \/ Answer
  /\ UNCHANGED <<world, walk>>

\* Any git call may fail: the timeout, a signal.  Those of defaultRef have a
\* default in place of an error.
GitFails ==
  /\ req.calls # <<>> /\ Head(req.calls) \notin {"submit", "symbolic-ref", "rev-parse", "firstRef"}
  /\ Answer
  /\ UNCHANGED <<world, walk>>

\* Without a ref, the empty-repository page.  Every ref counts, also those that are
\* no branches and tags, which the repository may have as well.
HasRef ==
  /\ Call("hasRef")
  /\ \/ ~Unborn /\ Show(req)
     \/ Unborn /\ (Answer \/ Show([req EXCEPT !.excused = TRUE]))
  /\ UNCHANGED <<world, walk>>

\* What defaultRef settles on.
Default(ref, failed) == Show([req EXCEPT !.ref = ref, !.excused = @ \/ failed])

\* One more call to come.
Then(call, r) == Show([r EXCEPT !.calls = <<Head(@), call>> \o Tail(@)])

SymbolicRef ==
  /\ Call("symbolic-ref")
  /\ Then("rev-parse", [req EXCEPT !.ref = HEAD]) \/ Default(Main, TRUE)
  /\ UNCHANGED <<world, walk>>

\* Mutant of RevParse: an unborn HEAD is taken as it is.
RevParseUnborn ==
  /\ Call("rev-parse")
  /\ Show(req)
  /\ UNCHANGED <<world, walk>>

\* An unborn HEAD, or a failure: the first branch is to be taken instead.
RevParse ==
  /\ Call("rev-parse")
  /\ \/ Exists(HEAD) /\ Show(req)
     \/ ~Exists(HEAD) /\ Then("firstRef", req)
     \/ Then("firstRef", [req EXCEPT !.excused = TRUE])
  /\ UNCHANGED <<world, walk>>

\* refs[0], or "main" if there is none.
FirstRef ==
  LET existing == {i \in DOMAIN Names : Exists(Names[i])}
      first == CHOOSE i \in existing : \A j \in existing : i <= j
  IN  /\ Call("firstRef")
      /\ \/ Default(IF existing = {} THEN Main ELSE Names[first], FALSE)
         \/ Default(Main, TRUE)
      /\ UNCHANGED <<world, walk>>

\* The names for the selector.
ListRefs ==
  /\ Call("refs")
  /\ Show([req EXCEPT !.refs = {n \in Refs : Exists(n)}])
  /\ UNCHANGED <<world, walk>>

\* git log --skip page*50 -50.
Page(log, page) ==
  {log[i] : i \in {j \in DOMAIN log : page * PageSize < j /\ j <= (page + 1) * PageSize}}

\* git log on the ref: a page of its commits, or none behind the last page.
CommitLog ==
  LET log == Lists(req.ref)
      items == Page(log, req.page)
  IN  /\ Call("commitLog")
      /\ IF log = <<>>
         THEN Missing /\ UNCHANGED walk
         ELSE /\ Show([req EXCEPT !.size = Cardinality(items)])
              /\ walk' = CASE req.kind # "log" -> walk
                           [] req.kind = "log" /\ req.page = 0 /\ walk.ref = Nothing ->
                                [ref |-> req.ref, left |-> Range(log) \ items, back |-> FALSE]
                           [] OTHER -> [walk EXCEPT !.left = @ \ items]
      /\ UNCHANGED world

\* ls-tree at the ref, and if the README is there, a second call that shows it.
FindReadme ==
  /\ Call("findReadme")
  /\ IF ~Exists(req.ref) THEN Missing
     ELSE Show(IF Head(Lists(req.ref)).readme
               THEN [req EXCEPT !.calls = <<"findReadme", "blobAt">> \o Tail(@)] ELSE req)
  /\ UNCHANGED <<world, walk>>

BlobAt ==
  /\ Call("blobAt")
  /\ IF Exists(req.ref) /\ Head(Lists(req.ref)).readme THEN Show(req) ELSE Missing
  /\ UNCHANGED <<world, walk>>

TreeEntries ==
  /\ Call("treeEntries")
  /\ IF Exists(req.ref) THEN Show([req EXCEPT !.readme = Head(Lists(req.ref)).readme])
     ELSE Missing
  /\ UNCHANGED <<world, walk>>

\* A commit is found whatever its branch has become.
DiffOf ==
  /\ Call("diffOf")
  /\ Show(req)
  /\ UNCHANGED <<world, walk>>

WebNext ==
  \/ \E n \in Refs : Push(n) \/ MoveBack(n)
  \/ Open \/ FollowTab \/ FollowLink \/ FollowOlder \/ FollowNewer
  \/ Submit \/ GitFails
  \/ HasRef \/ SymbolicRef \/ RevParse \/ FirstRef \/ ListRefs \/ CommitLog
  \/ FindReadme \/ BlobAt \/ TreeEntries \/ DiffOf

WebSpec == WebInit /\ [][WebNext]_pages

-----------------------------------------------------------------------------
(* Properties *)

PageKinds == {"home", "log", "tree", "blob", "raw", "diff", "rawDiff"}

\* What the modelled program is given: a list of names, a full page, and a Nothing that
\* is nothing else.
WebConstantsOK ==
  /\ Names \in Seq(Refs)
  /\ Nothing \notin Refs \cup {HEAD, Main} \cup PageKinds
  /\ PageSize \in Nat \ {0} /\ MaxCommits \in Nat

Kinds == PageKinds \cup {Nothing}

Places == Refs \cup {HEAD, Main, Nothing}

Calls ==
  {"submit", "hasRef", "symbolic-ref", "rev-parse", "firstRef", "refs", "commitLog", "findReadme",
   "blobAt", "treeEntries", "diffOf"}

Commits == [id : 1..MaxCommits, readme : BOOLEAN]

PageType ==
  [kind : Kinds, ref : Places, refs : SUBSET Refs, page : Nat, size : 0..PageSize, readme : BOOLEAN,
   lost : SUBSET Refs]

RequestType ==
  [kind : Kinds, ref : Places, refs : SUBSET Refs, page : Nat, size : 0..PageSize, readme : BOOLEAN,
   lost : SUBSET Refs, calls : Seq(Calls), missing : BOOLEAN, fresh : BOOLEAN, excused : BOOLEAN]

\* The pages that the links of templates ask for and the handlers render: a page
\* number is never negative, and only HEAD's branch, an existing one or "main"
\* becomes the ref.  A log lists no commit twice.
WebTypeOK ==
  /\ branch \in [Refs -> Seq(Commits)] /\ \A n \in Refs : IsInjective(branch[n])
  /\ pushed \in 0..MaxCommits
  /\ shown \in PageType /\ req \in RequestType
  /\ walk \in [ref : Refs \cup {Nothing}, left : SUBSET Commits, back : BOOLEAN]

\* A reader who follows "older" to the last page has seen every commit that the
\* branch had when the first page was listed, however many pushes have shifted the
\* pages meanwhile, if none of them moved the branch back (handleLog: skip is
\* page*pageSizeCommits, and a full page has a link to an older one).
LogIsComplete ==
  shown.kind = "log" /\ walk.ref # Nothing /\ req.calls = <<>> /\ shown.size < PageSize /\ ~walk.back => walk.left = {}

\* A page fails for want of a ref or a file only if a push took it away after the
\* rendering of the page that has the link, or of this one, had begun; or if a git
\* call failed; or if there was no branch.  Even then the home page works, unless
\* other refs hide that the repository is empty (handleRepoHome: the empty-repository
\* page; defaultRef: "fall back to an existing branch so commitLog/ls-tree don't 500").
MissingOnlyIfLost ==
  req.missing =>
    \/ req.ref \in req.lost
    \/ ~req.fresh /\ req.ref \in shown.lost
    \/ req.fresh /\ (req.lost # {} \/ req.excused)
==============================================================================
