---------------------------- MODULE BrowseProofs ----------------------------
(***************************************************************************)
(* Proofs about Browse, for any branches, page size and number of commits, *)
(* with pushes between any two calls of git: a log is complete for a       *)
(* reader who follows it to its end, and a page misses a ref or a file     *)
(* only if a push took it away.                                            *)
(***************************************************************************)
EXTENDS Browse, FiniteSetTheorems, WellFoundedInduction, TLAPS

-----------------------------------------------------------------------------
(* Short lists *)


\* A list with an element in front.
LEMMA InFront ==
  ASSUME NEW S, NEW a \in S, NEW s \in Seq(S)
  PROVE  /\ <<a>> \o s \in Seq(S) /\ Len(<<a>> \o s) = Len(s) + 1 /\ (<<a>> \o s)[1] = a
         /\ \A i \in 2..(Len(s) + 1) : (<<a>> \o s)[i] = s[i - 1]
OBVIOUS

\* Two elements in front, one after the other.
LEMMA TwoInFront ==
  ASSUME NEW S, NEW a \in S, NEW b \in S, NEW s \in Seq(S)
  PROVE  (<<a>> \o <<b>>) \o s = <<a>> \o (<<b>> \o s) /\ Tail(<<a, b>> \o s) = <<b>> \o s
<1>1. PICK t \in Seq(S) : t = <<b>> \o s
  BY InFront
<1>2. PICK u \in Seq(S) : u = <<a>> \o t
  BY InFront
<1>3. (<<a>> \o <<b>>) \o s = u
  BY <1>1, <1>2
<1> QED
  BY <1>1, <1>2, <1>3

\* The same in front of one.
LEMMA Cons1 ==
  ASSUME NEW a, NEW b
  PROVE  <<a>> \o <<b>> = <<a, b>>
<1> DEFINE S == {a, b}
<1>1. a \in S /\ b \in S
  OBVIOUS
<1> HIDE DEF S
<1>2. PICK s : s = <<b>>
  OBVIOUS
<1>3. s \in Seq(S) /\ Len(s) = 1 /\ s[1] = b
  BY <1>1, <1>2
<1>4. PICK t : t = <<a>> \o s
  OBVIOUS
<1>5. t \in Seq(S) /\ Len(t) = Len(s) + 1 /\ t[1] = a /\ \A i \in 2..(Len(s) + 1) : t[i] = s[i - 1]
  BY <1>1, <1>3, <1>4, InFront
<1>6. t \in Seq(S) /\ Len(t) = 2 /\ t[1] = a /\ t[2] = b
  BY <1>3, <1>5
<1>7. t = <<a, b>>
  BY <1>6
<1> QED
  BY <1>2, <1>4, <1>7

\* The same in front of two.
LEMMA Cons2 ==
  ASSUME NEW a, NEW b, NEW c
  PROVE  <<a>> \o <<b, c>> = <<a, b, c>>
<1> DEFINE S == {a, b, c}
<1>1. a \in S /\ b \in S /\ c \in S
  OBVIOUS
<1> HIDE DEF S
<1>2. PICK s : s = <<b, c>>
  OBVIOUS
<1>3. s \in Seq(S) /\ Len(s) = 2 /\ s[1] = b /\ s[2] = c
  BY <1>1, <1>2
<1>4. PICK t : t = <<a>> \o s
  OBVIOUS
<1>5. t \in Seq(S) /\ Len(t) = Len(s) + 1 /\ t[1] = a /\ \A i \in 2..(Len(s) + 1) : t[i] = s[i - 1]
  BY <1>1, <1>3, <1>4, InFront
<1>6. t \in Seq(S) /\ Len(t) = 3 /\ t[1] = a /\ t[2] = b /\ t[3] = c
  BY <1>3, <1>5
<1>7. t = <<a, b, c>>
  BY <1>6
<1> QED
  BY <1>2, <1>4, <1>7

\* The same in front of three.
LEMMA Cons3 ==
  ASSUME NEW a, NEW b, NEW c, NEW d
  PROVE  <<a>> \o <<b, c, d>> = <<a, b, c, d>>
<1> DEFINE S == {a, b, c, d}
<1>1. a \in S /\ b \in S /\ c \in S /\ d \in S
  OBVIOUS
<1> HIDE DEF S
<1>2. PICK s : s = <<b, c, d>>
  OBVIOUS
<1>3. s \in Seq(S) /\ Len(s) = 3 /\ s[1] = b /\ s[2] = c /\ s[3] = d
  BY <1>1, <1>2
<1>4. PICK t : t = <<a>> \o s
  OBVIOUS
<1>5. t \in Seq(S) /\ Len(t) = Len(s) + 1 /\ t[1] = a /\ \A i \in 2..(Len(s) + 1) : t[i] = s[i - 1]
  BY <1>1, <1>3, <1>4, InFront
<1>6. t \in Seq(S) /\ Len(t) = 4 /\ t[1] = a /\ t[2] = b /\ t[3] = c /\ t[4] = d
  BY <1>3, <1>5
<1>7. t = <<a, b, c, d>>
  BY <1>6
<1> QED
  BY <1>2, <1>4, <1>7

\* The same in front of four.
LEMMA Cons4 ==
  ASSUME NEW a, NEW b, NEW c, NEW d, NEW e
  PROVE  <<a>> \o <<b, c, d, e>> = <<a, b, c, d, e>>
<1> DEFINE S == {a, b, c, d, e}
<1>1. a \in S /\ b \in S /\ c \in S /\ d \in S /\ e \in S
  OBVIOUS
<1> HIDE DEF S
<1>2. PICK s : s = <<b, c, d, e>>
  OBVIOUS
<1>3. s \in Seq(S) /\ Len(s) = 4 /\ s[1] = b /\ s[2] = c /\ s[3] = d /\ s[4] = e
  BY <1>1, <1>2
<1>4. PICK t : t = <<a>> \o s
  OBVIOUS
<1>5. t \in Seq(S) /\ Len(t) = Len(s) + 1 /\ t[1] = a /\ \A i \in 2..(Len(s) + 1) : t[i] = s[i - 1]
  BY <1>1, <1>3, <1>4, InFront
<1>6. t \in Seq(S) /\ Len(t) = 5 /\ t[1] = a /\ t[2] = b /\ t[3] = c /\ t[4] = d /\ t[5] = e
  BY <1>3, <1>5
<1>7. t = <<a, b, c, d, e>>
  BY <1>6
<1> QED
  BY <1>2, <1>4, <1>7

\* The same in front of five.
LEMMA Cons5 ==
  ASSUME NEW a, NEW b, NEW c, NEW d, NEW e, NEW f
  PROVE  <<a>> \o <<b, c, d, e, f>> = <<a, b, c, d, e, f>>
<1> DEFINE S == {a, b, c, d, e, f}
<1>1. a \in S /\ b \in S /\ c \in S /\ d \in S /\ e \in S /\ f \in S
  OBVIOUS
<1> HIDE DEF S
<1>2. PICK s : s = <<b, c, d, e, f>>
  OBVIOUS
<1>3. s \in Seq(S) /\ Len(s) = 5 /\ s[1] = b /\ s[2] = c /\ s[3] = d /\ s[4] = e /\ s[5] = f
  BY <1>1, <1>2
<1>4. PICK t : t = <<a>> \o s
  OBVIOUS
<1>5. t \in Seq(S) /\ Len(t) = Len(s) + 1 /\ t[1] = a /\ \A i \in 2..(Len(s) + 1) : t[i] = s[i - 1]
  BY <1>1, <1>3, <1>4, InFront
<1>6. t \in Seq(S) /\ Len(t) = 6 /\ t[1] = a /\ t[2] = b /\ t[3] = c /\ t[4] = d /\ t[5] = e /\ t[6] = f
  BY <1>3, <1>5
<1>7. t = <<a, b, c, d, e, f>>
  BY <1>6
<1> QED
  BY <1>2, <1>4, <1>7

\* The same in front of six.
LEMMA Cons6 ==
  ASSUME NEW a, NEW b, NEW c, NEW d, NEW e, NEW f, NEW g
  PROVE  <<a>> \o <<b, c, d, e, f, g>> = <<a, b, c, d, e, f, g>>
<1> DEFINE S == {a, b, c, d, e, f, g}
<1>1. a \in S /\ b \in S /\ c \in S /\ d \in S /\ e \in S /\ f \in S /\ g \in S
  OBVIOUS
<1> HIDE DEF S
<1>2. PICK s : s = <<b, c, d, e, f, g>>
  OBVIOUS
<1>3. s \in Seq(S) /\ Len(s) = 6 /\ s[1] = b /\ s[2] = c /\ s[3] = d /\ s[4] = e /\ s[5] = f /\ s[6] = g
  BY <1>1, <1>2
<1>4. PICK t : t = <<a>> \o s
  OBVIOUS
<1>5. t \in Seq(S) /\ Len(t) = Len(s) + 1 /\ t[1] = a /\ \A i \in 2..(Len(s) + 1) : t[i] = s[i - 1]
  BY <1>1, <1>3, <1>4, InFront
<1>6. t \in Seq(S) /\ Len(t) = 7 /\ t[1] = a /\ t[2] = b /\ t[3] = c /\ t[4] = d /\ t[5] = e /\ t[6] = f /\ t[7] = g
  BY <1>3, <1>5
<1>7. t = <<a, b, c, d, e, f, g>>
  BY <1>6
<1> QED
  BY <1>2, <1>4, <1>7

-----------------------------------------------------------------------------
(* the inductive invariant *)

\* What may be left of a request, by its kind; only one whose URL names no ref asks
\* defaultRef for it.
LogCalls(fresh) ==
  IF fresh
  THEN {<<"submit", "symbolic-ref", "refs", "commitLog">>, <<"symbolic-ref", "refs", "commitLog">>,
        <<"rev-parse", "refs", "commitLog">>, <<"firstRef", "refs", "commitLog">>,
        <<"refs", "commitLog">>, <<"commitLog">>}
  ELSE {<<"submit", "refs", "commitLog">>, <<"refs", "commitLog">>, <<"commitLog">>}

\* The tree page.
TreeCalls(fresh) ==
  IF fresh
  THEN {<<"submit", "symbolic-ref", "refs", "treeEntries">>, <<"symbolic-ref", "refs", "treeEntries">>,
        <<"rev-parse", "refs", "treeEntries">>, <<"firstRef", "refs", "treeEntries">>,
        <<"refs", "treeEntries">>, <<"treeEntries">>}
  ELSE {<<"submit", "refs", "treeEntries">>, <<"refs", "treeEntries">>, <<"treeEntries">>}

\* The page of the repository.
HomeCalls ==
  {<<"submit", "hasRef", "symbolic-ref", "refs", "commitLog", "findReadme", "treeEntries">>,
   <<"hasRef", "symbolic-ref", "refs", "commitLog", "findReadme", "treeEntries">>,
   <<"symbolic-ref", "refs", "commitLog", "findReadme", "treeEntries">>,
   <<"rev-parse", "refs", "commitLog", "findReadme", "treeEntries">>,
   <<"firstRef", "refs", "commitLog", "findReadme", "treeEntries">>,
   <<"refs", "commitLog", "findReadme", "treeEntries">>,
   <<"commitLog", "findReadme", "treeEntries">>,
   <<"findReadme", "treeEntries">>, <<"blobAt", "treeEntries">>, <<"treeEntries">>}

\* The calls that are left of a request are the last ones of its handler.
CallsOK(r) ==
  \/ r.kind = "home" /\ r.fresh /\ r.calls \in HomeCalls
  \/ r.kind = "log" /\ r.calls \in LogCalls(r.fresh)
  \/ r.kind = "tree" /\ r.calls \in TreeCalls(r.fresh)
  \/ r.kind \in {"blob", "raw"} /\ ~r.fresh /\ r.calls \in {<<"submit", "blobAt">>, <<"blobAt">>}
  \/ r.kind = "diff" /\ r.fresh /\ r.calls \in {<<"submit", "diffOf", "submit">>, <<"diffOf", "submit">>, <<"submit">>}
  \/ r.kind = "rawDiff" /\ r.fresh /\ r.calls \in {<<"submit", "diffOf">>, <<"diffOf">>}

\* The newest commit of the branch has a readme.
HasReadme(n) == Exists(n) /\ Head(Lists(n)).readme

\* The branch is there, or a push took it away in time to be noted.
Here(n, lost) == Exists(n) \/ n \in lost

\* So is its readme.
ReadmeHere(n, lost) == HasReadme(n) \/ n \in lost

\* What the links of a page name was there when it was rendered.
ShownOK(p) ==
  /\ p.kind \in {"home", "log", "tree", "blob"} => p.ref \in Refs /\ Here(p.ref, p.lost)
  /\ \A n \in p.refs : Here(n, p.lost)
  /\ p.kind = "blob" \/ (p.kind \in {"home", "tree"} /\ p.readme) => ReadmeHere(p.ref, p.lost)

\* So was what a request for a link of page p names.
NamedOK(r, p) ==
  ~r.fresh =>
    /\ r.ref \in Refs /\ Here(r.ref, r.lost \cup p.lost)
    /\ r.kind \in {"blob", "raw"} => ReadmeHere(r.ref, r.lost \cup p.lost)

\* A request that names no ref has found a branch, and then settled on one that is there,
\* unless something was lost meanwhile or it is excused.
ChosenOK(r) ==
  /\ Head(r.calls) = "rev-parse" => r.ref = HEAD
  /\ r.kind \in {"home", "log", "tree"} /\ r.fresh /\ ~r.excused /\ r.lost = {} =>
       /\ r.kind # "home" \/ Head(r.calls) \notin {"submit", "hasRef"} => ~Unborn
       /\ Head(r.calls) \in {"refs", "commitLog", "findReadme", "blobAt", "treeEntries"} => Exists(r.ref)

\* What a page in rendering has seen so far was there.
SeenOK(r) ==
  /\ \A n \in r.refs : Here(n, r.lost)
  /\ r.kind \in {"diff", "rawDiff"} => r.refs = {}
  /\ r.kind = "home" /\ Head(r.calls) = "blobAt" => ReadmeHere(r.ref, r.lost)

\* What holds of a request in progress whose link was on page p.
RequestOK(r, p) == CallsOK(r) /\ ~r.missing /\ NamedOK(r, p) /\ ChosenOK(r) /\ SeenOK(r)

\* The commits that the walk has not seen yet are behind the page that is shown.
WalkOK ==
  walk.ref # Nothing =>
    /\ shown.kind = "log" /\ shown.ref = walk.ref
    /\ req.calls # <<>> =>
         req.kind = "log" /\ ~req.fresh /\ req.ref = walk.ref /\ req.page <= shown.page + 1
    /\ ~walk.back => \A c \in walk.left : \E i \in DOMAIN branch[walk.ref] :
                        branch[walk.ref][i] = c /\ i > (shown.page + 1) * PageSize
    /\ ~walk.back /\ shown.size < PageSize => walk.left = {}

\* Commits have the numbers of their pushes.
Numbered == \A n \in Refs : \A i \in DOMAIN branch[n] : branch[n][i].id <= pushed

\* The inductive invariant of the browse pages.
WebInv ==
  /\ WebConstantsOK
  /\ WebTypeOK /\ Numbered
  /\ req.calls # <<>> => RequestOK(req, shown)
  /\ ShownOK(shown)
  /\ WalkOK
  /\ MissingOnlyIfLost

-----------------------------------------------------------------------------
(* what the steps have in common *)

\* The constants of the pages.
LEMMA WebConstants ==
  WebConstantsOK =>
    /\ Names \in Seq(Refs) /\ Nothing \notin Refs /\ Nothing # HEAD /\ Nothing # Main /\ Nothing \notin PageKinds
    /\ PageSize \in Nat /\ PageSize > 0 /\ MaxCommits \in Nat
BY DEF WebConstantsOK

\* The invariant says so of the constants, too.
LEMMA Given == WebInv => WebConstantsOK
BY DEF WebInv

\* A ref that is there is a name with a log.
LEMMA Existing ==
  ASSUME NEW n, Exists(n)
  PROVE  n \in Refs /\ Lists(n) = branch[n] /\ branch[n] # <<>>
BY DEF Exists, Lists

\* The empty request and the empty page have their types.
LEMMA EmptyTypes ==
  WebConstantsOK =>
    /\ NoRequest \in RequestType /\ NoRequest.calls = <<>> /\ ~NoRequest.missing
    /\ NoPage \in PageType /\ ShownOK(NoPage)
<1> HAVE WebConstantsOK
<1>1. 0 \in 0..PageSize /\ Nothing \in Kinds /\ Nothing \in Places /\ <<>> \in Seq(Calls)
  BY WebConstants DEF Kinds, Places
<1>2. NoRequest \in RequestType
  BY <1>1 DEF NoRequest, RequestType
<1>3. NoPage \in PageType
  BY <1>1 DEF NoPage, PageType
<1>4. ShownOK(NoPage)
  BY WebConstants DEF NoPage, ShownOK, PageKinds
<1> QED
  BY <1>2, <1>3, <1>4 DEF NoRequest

\* While no push comes between, what was said of a page or a request is still true.
LEMMA SamePage == ASSUME branch' = branch PROVE ShownOK(shown)' <=> ShownOK(shown')
BY DEF ShownOK, Here, ReadmeHere, HasReadme, Exists, Lists

\* The same for a request.
LEMMA SameRequest == ASSUME branch' = branch PROVE RequestOK(req, shown)' <=> RequestOK(req', shown')
<1>1. CallsOK(req)' <=> CallsOK(req')
  BY DEF CallsOK, LogCalls, TreeCalls, HomeCalls
<1>2. NamedOK(req, shown)' <=> NamedOK(req', shown')
  BY DEF NamedOK, Here, ReadmeHere, HasReadme, Exists, Lists
<1>3. ChosenOK(req)' <=> ChosenOK(req')
  BY DEF ChosenOK, Exists, Lists, Unborn
<1>4. SeenOK(req)' <=> SeenOK(req')
  BY DEF SeenOK, Here, ReadmeHere, HasReadme, Exists, Lists
<1> QED
  BY <1>1, <1>2, <1>3, <1>4 DEF RequestOK

\* The walk follows the log of its branch: request q, if any, is for a page of it that is at
\* most the next one.
Follows(q) == q.kind = "log" /\ ~q.fresh /\ q.ref = walk.ref /\ q.page <= shown.page + 1

\* The next call of a request, or the first of a new one.
LEMMA GoesOn ==
  ASSUME WebInv, NEW q \in RequestType, RequestOK(q, shown), req' = q,
         UNCHANGED <<branch, pushed, shown>>,
         walk' = NoWalk \/ (UNCHANGED walk /\ (walk.ref # Nothing => Follows(q)))
  PROVE  WebInv'
<1>1. WebTypeOK'
  <2>1. NoWalk \in [ref : Refs \cup {Nothing}, left : SUBSET Commits, back : BOOLEAN]
    BY DEF NoWalk
  <2> QED
    BY <2>1 DEF WebInv, WebTypeOK
<1>2. Numbered'
  BY DEF WebInv, Numbered
<1>3. RequestOK(req, shown)'
  BY SameRequest
<1>4. ShownOK(shown)'
  BY SamePage DEF WebInv
<1>5. WalkOK'
  BY DEF WebInv, WalkOK, Follows, NoWalk
<1>6. MissingOnlyIfLost'
  BY DEF RequestOK, MissingOnlyIfLost
<1> QED
  BY <1>1, <1>2, <1>3, <1>4, <1>5, <1>6 DEF WebInv

\* The end of a request, with page p.
LEMMA EndsWith ==
  ASSUME WebInv, NEW p \in PageType, ShownOK(p), req' = NoRequest, shown' = p,
         walk' \in [ref : Refs \cup {Nothing}, left : SUBSET Commits, back : BOOLEAN],
         UNCHANGED <<branch, pushed>>, WalkOK'
  PROVE  WebInv'
<1>1. WebTypeOK'
  BY EmptyTypes, Given DEF WebInv, WebTypeOK
<1>2. Numbered'
  BY DEF WebInv, Numbered
<1>3. ShownOK(shown)'
  BY SamePage
<1>4. req'.calls = <<>> /\ ~req'.missing
  BY EmptyTypes, Given
<1>5. MissingOnlyIfLost'
  BY <1>4 DEF MissingOnlyIfLost
<1> QED
  BY <1>1, <1>2, <1>3, <1>4, <1>5 DEF WebInv

\* An error, or the empty-repository page: the page before stays.
LEMMA AnswerKeeps == ASSUME WebInv, Answer, UNCHANGED <<branch, pushed, walk>> PROVE WebInv'
<1>1. req' = NoRequest /\ shown' = shown
  BY DEF Answer
<1>2. req'.calls = <<>>
  BY <1>1, EmptyTypes, Given
<1>3. WalkOK'
  BY <1>1, <1>2 DEF WebInv, WalkOK
<1> QED
  BY <1>1, <1>3, EndsWith DEF WebInv, WebTypeOK

\* The answer that something is missing.
LEMMA MissingKeeps ==
  ASSUME WebInv, Missing, UNCHANGED <<branch, pushed, walk>>,
         \/ req.ref \in req.lost
         \/ ~req.fresh /\ req.ref \in shown.lost
         \/ req.fresh /\ (req.lost # {} \/ req.excused)
  PROVE  WebInv'
<1> DEFINE q == [NoRequest EXCEPT !.missing = TRUE, !.kind = req.kind, !.ref = req.ref, !.lost = req.lost,
                                      !.fresh = req.fresh, !.excused = req.excused]
<1>1. req' = q /\ shown' = shown
  BY DEF Missing
<1>2. req \in RequestType
  BY DEF WebInv, WebTypeOK
<1>3. /\ q \in RequestType /\ q.calls = <<>> /\ q.ref = req.ref /\ q.lost = req.lost
      /\ q.fresh = req.fresh /\ q.excused = req.excused
  BY <1>2, EmptyTypes, Given DEF RequestType
<1> HIDE DEF q
<1>4. WebTypeOK'
  BY <1>1, <1>3 DEF WebInv, WebTypeOK
<1>5. Numbered'
  BY DEF WebInv, Numbered
<1>6. ShownOK(shown)'
  BY <1>1, SamePage DEF WebInv
<1>7. WalkOK'
  BY <1>1, <1>3 DEF WebInv, WalkOK
<1>8. MissingOnlyIfLost'
  BY <1>1, <1>3 DEF MissingOnlyIfLost
<1> QED
  BY <1>1, <1>3, <1>4, <1>5, <1>6, <1>7, <1>8 DEF WebInv

-----------------------------------------------------------------------------
(* the calls *)

\* A request without its first call.
Popped(r) == [r EXCEPT !.calls = Tail(@)]

\* It is the same but for that.
LEMMA PoppedFields ==
  ASSUME NEW r \in RequestType, r.calls # <<>>
  PROVE  /\ Popped(r) \in RequestType /\ Popped(r).calls = Tail(r.calls)
         /\ Popped(r).kind = r.kind /\ Popped(r).ref = r.ref /\ Popped(r).refs = r.refs
         /\ Popped(r).page = r.page /\ Popped(r).lost = r.lost /\ Popped(r).missing = r.missing
         /\ Popped(r).fresh = r.fresh /\ Popped(r).excused = r.excused
<1>1. Tail(r.calls) \in Seq(Calls)
  BY DEF RequestType
<1> QED
  BY <1>1 DEF Popped, RequestType

\* Show goes on with the next call.
LEMMA ShowGoesOn ==
  ASSUME WebInv, NEW r \in RequestType, Len(r.calls) > 1, Show(r), RequestOK(Popped(r), shown),
         UNCHANGED <<branch, pushed, walk>>, walk.ref # Nothing => Follows(Popped(r))
  PROVE  WebInv'
<1>1. req' = Popped(r) /\ shown' = shown
  BY DEF Show, Proceed, Popped
<1>2. r.calls # <<>>
  OBVIOUS
<1>3. Popped(r) \in RequestType
  BY <1>2, PoppedFields
<1> QED
  BY <1>1, <1>3, GoesOn

\* The page that a request ends with.
PageOf(r) ==
  [kind |-> r.kind, ref |-> r.ref, refs |-> r.refs, page |-> r.page,
   size |-> r.size, readme |-> r.readme, lost |-> r.lost \cap Linked(r)]

\* Show ends the request with its page.
LEMMA ShowEnds ==
  ASSUME WebInv, NEW r \in RequestType, Len(r.calls) = 1, Show(r),
         r.kind \notin {"raw", "rawDiff"} => ShownOK(PageOf(r)),
         walk' \in [ref : Refs \cup {Nothing}, left : SUBSET Commits, back : BOOLEAN],
         UNCHANGED <<branch, pushed>>, WalkOK'
  PROVE  WebInv'
<1>1. req' = NoRequest /\ shown' = IF r.kind \in {"raw", "rawDiff"} THEN shown ELSE PageOf(r)
  BY DEF Show, PageOf
<1>2. PageOf(r) \in PageType
  BY DEF PageOf, PageType, RequestType
<1>3. CASE r.kind \in {"raw", "rawDiff"}
  BY <1>1, <1>3, EndsWith DEF WebInv, WebTypeOK
<1>4. CASE r.kind \notin {"raw", "rawDiff"}
  BY <1>1, <1>2, <1>4, EndsWith
<1> QED
  BY <1>3, <1>4

\* What is known of the request at a call.
LEMMA AtCall ==
  ASSUME WebInv, NEW call, Call(call)
  PROVE  /\ req \in RequestType /\ req.calls # <<>> /\ Head(req.calls) = call
         /\ CallsOK(req) /\ ~req.missing /\ NamedOK(req, shown) /\ ChosenOK(req) /\ SeenOK(req)
         /\ walk.ref # Nothing => Follows(req)
BY DEF WebInv, WebTypeOK, Call, RequestOK, WalkOK, Follows

\* What submit leaves of a request.
Submitted(kind, fresh, calls) ==
  \/ /\ kind = "home" /\ fresh
     /\ calls = <<"hasRef", "symbolic-ref", "refs", "commitLog", "findReadme", "treeEntries">>
  \/ kind = "log" /\ fresh /\ calls = <<"symbolic-ref", "refs", "commitLog">>
  \/ kind = "log" /\ ~fresh /\ calls = <<"refs", "commitLog">>
  \/ kind = "tree" /\ fresh /\ calls = <<"symbolic-ref", "refs", "treeEntries">>
  \/ kind = "tree" /\ ~fresh /\ calls = <<"refs", "treeEntries">>
  \/ kind \in {"blob", "raw"} /\ ~fresh /\ calls = <<"blobAt">>
  \/ kind = "diff" /\ fresh /\ calls = <<"diffOf", "submit">>
  \/ kind = "rawDiff" /\ fresh /\ calls = <<"diffOf">>

\* The same at the call; only for the page of a commit, it is the last one.
LEMMA AtSubmit ==
  ASSUME CallsOK(req), Head(req.calls) = "submit"
  PROVE  \/ Len(req.calls) > 1 /\ Submitted(req.kind, req.fresh, Tail(req.calls))
         \/ ~(Len(req.calls) > 1) /\ Len(req.calls) = 1 /\ req.kind = "diff" /\ req.fresh
<1>1. \/ /\ req.kind = "home" /\ req.fresh
         /\ req.calls = <<"submit", "hasRef", "symbolic-ref", "refs", "commitLog", "findReadme", "treeEntries">>
      \/ req.kind = "log" /\ req.fresh /\ req.calls = <<"submit", "symbolic-ref", "refs", "commitLog">>
      \/ req.kind = "log" /\ ~req.fresh /\ req.calls = <<"submit", "refs", "commitLog">>
      \/ req.kind = "tree" /\ req.fresh /\ req.calls = <<"submit", "symbolic-ref", "refs", "treeEntries">>
      \/ req.kind = "tree" /\ ~req.fresh /\ req.calls = <<"submit", "refs", "treeEntries">>
      \/ req.kind \in {"blob", "raw"} /\ ~req.fresh /\ req.calls = <<"submit", "blobAt">>
      \/ req.kind = "diff" /\ req.fresh /\ req.calls = <<"submit", "diffOf", "submit">>
      \/ req.kind = "rawDiff" /\ req.fresh /\ req.calls = <<"submit", "diffOf">>
      \/ req.kind = "diff" /\ req.fresh /\ req.calls = <<"submit">>
  BY DEF CallsOK, HomeCalls, LogCalls, TreeCalls
<1>2. CASE /\ req.kind = "home" /\ req.fresh
           /\ req.calls = <<"submit", "hasRef", "symbolic-ref", "refs", "commitLog", "findReadme", "treeEntries">>
  <2>1. Tail(req.calls) = <<"hasRef", "symbolic-ref", "refs", "commitLog", "findReadme", "treeEntries">> /\ Len(req.calls) > 1
    BY <1>2
  <2> QED
    BY <1>2, <2>1 DEF Submitted
<1>3. CASE req.kind = "log" /\ req.fresh /\ req.calls = <<"submit", "symbolic-ref", "refs", "commitLog">>
  <2>1. Tail(req.calls) = <<"symbolic-ref", "refs", "commitLog">> /\ Len(req.calls) > 1
    BY <1>3
  <2> QED
    BY <1>3, <2>1 DEF Submitted
<1>4. CASE req.kind = "log" /\ ~req.fresh /\ req.calls = <<"submit", "refs", "commitLog">>
  <2>1. Tail(req.calls) = <<"refs", "commitLog">> /\ Len(req.calls) > 1
    BY <1>4
  <2> QED
    BY <1>4, <2>1 DEF Submitted
<1>5. CASE req.kind = "tree" /\ req.fresh /\ req.calls = <<"submit", "symbolic-ref", "refs", "treeEntries">>
  <2>1. Tail(req.calls) = <<"symbolic-ref", "refs", "treeEntries">> /\ Len(req.calls) > 1
    BY <1>5
  <2> QED
    BY <1>5, <2>1 DEF Submitted
<1>6. CASE req.kind = "tree" /\ ~req.fresh /\ req.calls = <<"submit", "refs", "treeEntries">>
  <2>1. Tail(req.calls) = <<"refs", "treeEntries">> /\ Len(req.calls) > 1
    BY <1>6
  <2> QED
    BY <1>6, <2>1 DEF Submitted
<1>7. CASE req.kind \in {"blob", "raw"} /\ ~req.fresh /\ req.calls = <<"submit", "blobAt">>
  <2>1. Tail(req.calls) = <<"blobAt">> /\ Len(req.calls) > 1
    BY <1>7
  <2> QED
    BY <1>7, <2>1 DEF Submitted
<1>8. CASE req.kind = "diff" /\ req.fresh /\ req.calls = <<"submit", "diffOf", "submit">>
  <2>1. Tail(req.calls) = <<"diffOf", "submit">> /\ Len(req.calls) > 1
    BY <1>8
  <2> QED
    BY <1>8, <2>1 DEF Submitted
<1>9. CASE req.kind = "rawDiff" /\ req.fresh /\ req.calls = <<"submit", "diffOf">>
  <2>1. Tail(req.calls) = <<"diffOf">> /\ Len(req.calls) > 1
    BY <1>9
  <2> QED
    BY <1>9, <2>1 DEF Submitted
<1>10. CASE req.kind = "diff" /\ req.fresh /\ req.calls = <<"submit">>
  BY <1>10
<1> QED
  BY <1>1, <1>2, <1>3, <1>4, <1>5, <1>6, <1>7, <1>8, <1>9, <1>10

\* What is left is what may be, and defaultRef or the handler's own calls come next.
LEMMA AfterSubmit ==
  ASSUME NEW r, Submitted(r.kind, r.fresh, r.calls)
  PROVE  /\ CallsOK(r) /\ Head(r.calls) # "rev-parse"
         /\ Head(r.calls) = "blobAt" => r.kind \in {"blob", "raw"}
         /\ r.kind = "home" => Head(r.calls) = "hasRef"
         /\ r.kind \in {"log", "tree"} /\ r.fresh => Head(r.calls) = "symbolic-ref"
<1>1. CASE r.kind = "home"
  <2>1. r.fresh /\ r.calls = <<"hasRef", "symbolic-ref", "refs", "commitLog", "findReadme", "treeEntries">>
    BY <1>1 DEF Submitted
  <2> QED
    BY <1>1, <2>1 DEF CallsOK, HomeCalls
<1>2. CASE r.kind = "log"
  <2>1. r.calls = IF r.fresh THEN <<"symbolic-ref", "refs", "commitLog">> ELSE <<"refs", "commitLog">>
    BY <1>2 DEF Submitted
  <2> QED
    BY <1>2, <2>1 DEF CallsOK, LogCalls
<1>3. CASE r.kind = "tree"
  <2>1. r.calls = IF r.fresh THEN <<"symbolic-ref", "refs", "treeEntries">> ELSE <<"refs", "treeEntries">>
    BY <1>3 DEF Submitted
  <2> QED
    BY <1>3, <2>1 DEF CallsOK, TreeCalls
<1>4. CASE r.kind \in {"blob", "raw"}
  BY <1>4 DEF Submitted, CallsOK
<1>5. CASE r.kind \in {"diff", "rawDiff"}
  BY <1>5 DEF Submitted, CallsOK
<1> QED
  BY <1>1, <1>2, <1>3, <1>4, <1>5 DEF Submitted

\* Submitting keeps the invariant.
LEMMA SubmitKeeps == ASSUME WebInv, Submit PROVE WebInv'
<1>1. Call("submit") /\ UNCHANGED <<branch, pushed, walk>> /\ (Show(req) \/ Answer)
  BY DEF Submit, world
<1>2. /\ req \in RequestType /\ req.calls # <<>> /\ Head(req.calls) = "submit"
      /\ CallsOK(req) /\ ~req.missing /\ NamedOK(req, shown) /\ ChosenOK(req) /\ SeenOK(req)
      /\ walk.ref # Nothing => Follows(req)
  BY <1>1, AtCall
<1>3. CASE Answer
  BY <1>1, <1>3, AnswerKeeps
<1>4. CASE Show(req) /\ Len(req.calls) > 1
  <2> DEFINE q == Popped(req)
  <2>1. /\ q.calls = Tail(req.calls) /\ q.kind = req.kind /\ q.ref = req.ref /\ q.refs = req.refs
        /\ q.page = req.page /\ q.lost = req.lost /\ q.missing = req.missing
        /\ q.fresh = req.fresh /\ q.excused = req.excused
    BY <1>2, PoppedFields
  <2> HIDE DEF q
  <2>2. Submitted(q.kind, q.fresh, q.calls)
    <3>1. Submitted(req.kind, req.fresh, Tail(req.calls))
      BY <1>2, <1>4, AtSubmit, Zenon
    <3> QED
      BY <2>1, <3>1, Zenon
  <2>3. /\ CallsOK(q) /\ Head(q.calls) # "rev-parse"
        /\ Head(q.calls) = "blobAt" => q.kind \in {"blob", "raw"}
        /\ q.kind = "home" => Head(q.calls) = "hasRef"
        /\ q.kind \in {"log", "tree"} /\ q.fresh => Head(q.calls) = "symbolic-ref"
    BY <2>2, AfterSubmit
  <2>4. NamedOK(q, shown) /\ SeenOK(q)
    BY <1>2, <2>1, <2>3 DEF NamedOK, SeenOK
  <2>5. ChosenOK(q)
    BY <1>2, <2>1, <2>3 DEF ChosenOK
  <2>6. walk.ref # Nothing => Follows(q)
    BY <1>2, <2>1 DEF Follows
  <2> QED
    BY <1>1, <1>2, <1>4, <2>1, <2>3, <2>4, <2>5, <2>6, ShowGoesOn DEF RequestOK, q
<1>5. CASE Show(req) /\ ~(Len(req.calls) > 1)
  <2>1. req.kind = "diff" /\ Len(req.calls) = 1
    BY <1>2, <1>5, AtSubmit
  <2>2. ShownOK(PageOf(req))
    BY <1>2, <2>1 DEF ShownOK, PageOf, SeenOK
  <2>3. walk.ref = Nothing
    BY <1>2, <2>1 DEF Follows
  <2>4. WalkOK'
    BY <1>1, <2>3 DEF WalkOK
  <2> QED
    BY <1>1, <1>2, <1>5, <2>1, <2>2, <2>4, ShowEnds DEF WebInv, WebTypeOK
<1> QED
  BY <1>1, <1>3, <1>4, <1>5

\* So does a failure.
LEMMA GitFailsKeeps == ASSUME WebInv, GitFails PROVE WebInv'
BY AnswerKeeps DEF GitFails, world

\* What defaultRef leaves of a request, whatever it does.
Settled(kind, calls) ==
  \/ kind = "home" /\ calls = <<"refs", "commitLog", "findReadme", "treeEntries">>
  \/ kind = "log" /\ calls = <<"refs", "commitLog">>
  \/ kind = "tree" /\ calls = <<"refs", "treeEntries">>

\* Its calls belong to a request that names no ref.
LEMMA AtDefault ==
  ASSUME CallsOK(req), Head(req.calls) \in {"symbolic-ref", "rev-parse", "firstRef"}
  PROVE  req.fresh /\ Len(req.calls) > 1 /\ Settled(req.kind, Tail(req.calls))
<1>1. CASE req.kind = "home"
  <2>1. req.fresh /\ req.calls \in {<<"symbolic-ref", "refs", "commitLog", "findReadme", "treeEntries">>,
                                 <<"rev-parse", "refs", "commitLog", "findReadme", "treeEntries">>,
                                 <<"firstRef", "refs", "commitLog", "findReadme", "treeEntries">>}
    BY <1>1 DEF CallsOK, HomeCalls
  <2>2. CASE req.calls = <<"symbolic-ref", "refs", "commitLog", "findReadme", "treeEntries">>
    BY <1>1, <2>1, <2>2 DEF Settled
  <2>3. CASE req.calls = <<"rev-parse", "refs", "commitLog", "findReadme", "treeEntries">>
    BY <1>1, <2>1, <2>3 DEF Settled
  <2>4. CASE req.calls = <<"firstRef", "refs", "commitLog", "findReadme", "treeEntries">>
    BY <1>1, <2>1, <2>4 DEF Settled
  <2> QED
    BY <2>1, <2>2, <2>3, <2>4
<1>2. CASE req.kind = "log"
  <2>1. req.fresh /\ req.calls \in {<<"symbolic-ref", "refs", "commitLog">>,
                                 <<"rev-parse", "refs", "commitLog">>,
                                 <<"firstRef", "refs", "commitLog">>}
    BY <1>2 DEF CallsOK, LogCalls
  <2>2. CASE req.calls = <<"symbolic-ref", "refs", "commitLog">>
    BY <1>2, <2>1, <2>2 DEF Settled
  <2>3. CASE req.calls = <<"rev-parse", "refs", "commitLog">>
    BY <1>2, <2>1, <2>3 DEF Settled
  <2>4. CASE req.calls = <<"firstRef", "refs", "commitLog">>
    BY <1>2, <2>1, <2>4 DEF Settled
  <2> QED
    BY <2>1, <2>2, <2>3, <2>4
<1>3. CASE req.kind = "tree"
  <2>1. req.fresh /\ req.calls \in {<<"symbolic-ref", "refs", "treeEntries">>,
                                 <<"rev-parse", "refs", "treeEntries">>,
                                 <<"firstRef", "refs", "treeEntries">>}
    BY <1>3 DEF CallsOK, TreeCalls
  <2>2. CASE req.calls = <<"symbolic-ref", "refs", "treeEntries">>
    BY <1>3, <2>1, <2>2 DEF Settled
  <2>3. CASE req.calls = <<"rev-parse", "refs", "treeEntries">>
    BY <1>3, <2>1, <2>3 DEF Settled
  <2>4. CASE req.calls = <<"firstRef", "refs", "treeEntries">>
    BY <1>3, <2>1, <2>4 DEF Settled
  <2> QED
    BY <2>1, <2>2, <2>3, <2>4
<1>4. req.kind \in {"home", "log", "tree"}
  BY DEF CallsOK
<1> QED
  BY <1>1, <1>2, <1>3, <1>4

\* What may be left of it then.
LEMMA DefaultCalls ==
  ASSUME NEW r, NEW calls, r.fresh, Settled(r.kind, calls),
         \/ r.calls = calls
         \/ r.calls = <<"rev-parse">> \o calls
         \/ r.calls = <<"firstRef">> \o calls
  PROVE  CallsOK(r) /\ Head(r.calls) \in {"refs", "rev-parse", "firstRef"}
         /\ (Head(r.calls) = "refs" <=> r.calls = calls)
         /\ (Head(r.calls) = "rev-parse" <=> r.calls = <<"rev-parse">> \o calls)
<1>1. CASE r.kind = "home"
  <2>1. calls = <<"refs", "commitLog", "findReadme", "treeEntries">>
    BY <1>1 DEF Settled
  <2>2. /\ <<"rev-parse">> \o calls = <<"rev-parse", "refs", "commitLog", "findReadme", "treeEntries">>
        /\ <<"firstRef">> \o calls = <<"firstRef", "refs", "commitLog", "findReadme", "treeEntries">>
    BY <2>1, Cons4
  <2>3. r.calls \in HomeCalls
    BY <2>1, <2>2 DEF HomeCalls
  <2> QED
    BY <1>1, <2>1, <2>2, <2>3 DEF CallsOK
<1>2. CASE r.kind = "log"
  <2>1. calls = <<"refs", "commitLog">>
    BY <1>2 DEF Settled
  <2>2. /\ <<"rev-parse">> \o calls = <<"rev-parse", "refs", "commitLog">>
        /\ <<"firstRef">> \o calls = <<"firstRef", "refs", "commitLog">>
    BY <2>1, Cons2
  <2>3. r.calls \in LogCalls(r.fresh)
    BY <2>1, <2>2 DEF LogCalls
  <2> QED
    BY <1>2, <2>1, <2>2, <2>3 DEF CallsOK, LogCalls
<1>3. CASE r.kind = "tree"
  <2>1. calls = <<"refs", "treeEntries">>
    BY <1>3 DEF Settled
  <2>2. /\ <<"rev-parse">> \o calls = <<"rev-parse", "refs", "treeEntries">>
        /\ <<"firstRef">> \o calls = <<"firstRef", "refs", "treeEntries">>
    BY <2>1, Cons2
  <2>3. r.calls \in TreeCalls(r.fresh)
    BY <2>1, <2>2 DEF TreeCalls
  <2> QED
    BY <1>3, <2>1, <2>2, <2>3 DEF CallsOK, TreeCalls
<1> QED
  BY <1>1, <1>2, <1>3 DEF Settled

\* A call of defaultRef that goes on as r keeps the invariant, if the ref it settles on
\* is there.
LEMMA DefaultKeeps ==
  ASSUME WebInv, req.calls # <<>>, Head(req.calls) \in {"symbolic-ref", "rev-parse", "firstRef"},
         NEW r \in RequestType, Len(r.calls) > 1, Show(r),
         r.kind = req.kind, r.refs = req.refs, r.lost = req.lost, r.missing = req.missing,
         r.fresh = req.fresh, req.excused => r.excused,
         \/ Tail(r.calls) = Tail(req.calls) /\ (Exists(r.ref) \/ r.excused \/ r.lost # {})
         \/ Tail(r.calls) = <<"rev-parse">> \o Tail(req.calls) /\ r.ref = HEAD
         \/ Tail(r.calls) = <<"firstRef">> \o Tail(req.calls),
         UNCHANGED <<branch, pushed, walk>>
  PROVE  WebInv'
<1>1. /\ req \in RequestType /\ CallsOK(req) /\ ~req.missing /\ ChosenOK(req) /\ SeenOK(req)
      /\ walk.ref # Nothing => Follows(req)
  BY AtCall DEF Call
<1>2. req.fresh /\ Settled(req.kind, Tail(req.calls))
  BY <1>1, AtDefault
<1> DEFINE q == Popped(r)
<1>3. r.calls # <<>>
  OBVIOUS
<1>4. /\ q.calls = Tail(r.calls) /\ q.kind = r.kind /\ q.ref = r.ref /\ q.refs = r.refs
      /\ q.lost = r.lost /\ q.missing = r.missing /\ q.fresh = r.fresh /\ q.excused = r.excused
  BY <1>3, PoppedFields
<1> HIDE DEF q
<1>5. /\ CallsOK(q) /\ Head(q.calls) \in {"refs", "rev-parse", "firstRef"}
      /\ Head(q.calls) = "refs" => q.calls = Tail(req.calls)
      /\ Head(q.calls) = "rev-parse" => q.calls = <<"rev-parse">> \o Tail(req.calls)
  BY <1>2, <1>4, DefaultCalls
<1>6. Head(q.calls) = "rev-parse" => q.ref = HEAD
  <2>1. CASE Tail(r.calls) = Tail(req.calls)
    BY <1>2, <1>4, <2>1, DefaultCalls
  <2>2. CASE Tail(r.calls) = <<"rev-parse">> \o Tail(req.calls) /\ r.ref = HEAD
    BY <1>4, <2>2
  <2>3. CASE Tail(r.calls) = <<"firstRef">> \o Tail(req.calls)
    <3>1. <<"firstRef">> \o Tail(req.calls) # <<"rev-parse">> \o Tail(req.calls)
      BY <1>1, InFront DEF RequestType, Calls
    <3> QED
      BY <1>4, <1>5, <2>3, <3>1
  <2> QED
    BY <2>1, <2>2, <2>3
<1>7. Head(q.calls) = "refs" => Exists(q.ref) \/ q.excused \/ q.lost # {}
  <2>1. Tail(req.calls) \in Seq(Calls)
    BY <1>1 DEF RequestType
  <2>2. Len(<<"rev-parse">> \o Tail(req.calls)) # Len(Tail(req.calls))
        /\ Len(<<"firstRef">> \o Tail(req.calls)) # Len(Tail(req.calls))
    BY <2>1, InFront DEF Calls
  <2> QED
    BY <1>4, <1>5, <2>2
<1>8. ChosenOK(q)
  BY <1>1, <1>2, <1>4, <1>5, <1>6, <1>7 DEF ChosenOK
<1>9. NamedOK(q, shown) /\ SeenOK(q)
  BY <1>1, <1>2, <1>4, <1>5 DEF NamedOK, SeenOK
<1>10. walk.ref = Nothing
  BY <1>1, <1>2 DEF Follows
<1> QED
  BY <1>1, <1>4, <1>5, <1>8, <1>9, <1>10, ShowGoesOn DEF RequestOK, q

\* What is left of a request at hasRef.
LEMMA AtHasRef ==
  ASSUME CallsOK(req), Head(req.calls) = "hasRef"
  PROVE  /\ req.kind = "home" /\ req.fresh /\ Len(req.calls) > 1
         /\ Tail(req.calls) = <<"symbolic-ref", "refs", "commitLog", "findReadme", "treeEntries">>
<1>1. /\ req.kind = "home" /\ req.fresh
      /\ req.calls = <<"hasRef", "symbolic-ref", "refs", "commitLog", "findReadme", "treeEntries">>
  BY DEF CallsOK, HomeCalls, LogCalls, TreeCalls
<1> QED
  BY <1>1

\* The home page goes on, when there is a branch or it is excused.
LEMMA HasRefGoesOn ==
  ASSUME WebInv, Call("hasRef"), NEW r \in RequestType, Show(r),
         r.calls = req.calls, r.kind = req.kind, r.refs = req.refs, r.lost = req.lost,
         r.missing = req.missing, r.fresh = req.fresh, r.excused \/ ~Unborn,
         UNCHANGED <<branch, pushed, walk>>
  PROVE  WebInv'
<1>1. /\ req \in RequestType /\ req.calls # <<>> /\ Head(req.calls) = "hasRef"
      /\ CallsOK(req) /\ ~req.missing /\ SeenOK(req)
      /\ walk.ref # Nothing => Follows(req)
  BY AtCall
<1>2. /\ req.kind = "home" /\ req.fresh /\ Len(req.calls) > 1
      /\ Tail(req.calls) = <<"symbolic-ref", "refs", "commitLog", "findReadme", "treeEntries">>
  BY <1>1, AtHasRef
<1> DEFINE q == Popped(r)
<1>3. /\ q.calls = Tail(req.calls) /\ q.kind = r.kind /\ q.refs = r.refs
      /\ q.lost = r.lost /\ q.missing = r.missing /\ q.fresh = r.fresh /\ q.excused = r.excused
  BY <1>1, PoppedFields
<1> HIDE DEF q
<1>4. q.kind = "home" /\ CallsOK(q) /\ Head(q.calls) = "symbolic-ref"
  <2>1. /\ q.kind = "home" /\ q.fresh
        /\ q.calls = <<"symbolic-ref", "refs", "commitLog", "findReadme", "treeEntries">>
    BY <1>2, <1>3
  <2> QED
    BY <2>1 DEF CallsOK, HomeCalls
<1>5. NamedOK(q, shown) /\ ChosenOK(q) /\ SeenOK(q)
  BY <1>1, <1>2, <1>3, <1>4 DEF NamedOK, ChosenOK, SeenOK
<1>6. walk.ref = Nothing
  BY <1>1, <1>2 DEF Follows
<1> QED
  BY <1>1, <1>2, <1>3, <1>4, <1>5, <1>6, ShowGoesOn DEF RequestOK, q

\* hasRef keeps the invariant.
LEMMA HasRefKeeps == ASSUME WebInv, HasRef PROVE WebInv'
<1>1. Call("hasRef") /\ UNCHANGED <<branch, pushed, walk>>
  BY DEF HasRef, world
<1>2. req \in RequestType
  BY DEF WebInv, WebTypeOK
<1>3. CASE Answer
  BY <1>1, <1>3, AnswerKeeps
<1>4. CASE ~Unborn /\ Show(req)
  BY <1>1, <1>2, <1>4, HasRefGoesOn
<1>5. CASE Show([req EXCEPT !.excused = TRUE])
  <2> DEFINE r == [req EXCEPT !.excused = TRUE]
  <2>1. /\ r \in RequestType /\ r.calls = req.calls /\ r.kind = req.kind /\ r.refs = req.refs
        /\ r.lost = req.lost /\ r.missing = req.missing /\ r.fresh = req.fresh /\ r.excused
    BY <1>2 DEF RequestType
  <2>2. Show(r)
    BY <1>5
  <2> HIDE DEF r
  <2> QED
    BY <1>1, <2>1, <2>2, HasRefGoesOn
<1> QED
  BY <1>3, <1>4, <1>5 DEF HasRef

\* Default settles on a ref that is there, unless it is excused or something was lost.
LEMMA DefaultSettles ==
  ASSUME WebInv, req.calls # <<>>, Head(req.calls) \in {"symbolic-ref", "rev-parse", "firstRef"},
         NEW ref \in Places, NEW failed \in BOOLEAN, Default(ref, failed),
         Exists(ref) \/ failed \/ req.excused \/ req.lost # {},
         UNCHANGED <<branch, pushed, walk>>
  PROVE  WebInv'
<1>1. req \in RequestType /\ CallsOK(req)
  BY DEF WebInv, WebTypeOK, RequestOK
<1>2. Len(req.calls) > 1
  BY <1>1, AtDefault
<1> DEFINE r == [req EXCEPT !.ref = ref, !.excused = @ \/ failed]
<1>3. /\ r \in RequestType /\ r.calls = req.calls /\ r.kind = req.kind /\ r.refs = req.refs
      /\ r.lost = req.lost /\ r.missing = req.missing /\ r.fresh = req.fresh
      /\ r.excused = (req.excused \/ failed) /\ r.ref = ref
  BY <1>1 DEF RequestType
<1>4. Show(r)
  BY DEF Default
<1> HIDE DEF r
<1> QED
  BY <1>2, <1>3, <1>4, DefaultKeeps

\* Then goes on with the call that it names.
LEMMA ThenKeeps ==
  ASSUME WebInv, req.calls # <<>>, Head(req.calls) \in {"symbolic-ref", "rev-parse", "firstRef"},
         NEW call \in {"rev-parse", "firstRef"}, NEW r \in RequestType, Then(call, r),
         r.calls = req.calls, r.kind = req.kind, r.refs = req.refs, r.lost = req.lost,
         r.missing = req.missing, r.fresh = req.fresh, req.excused => r.excused,
         call = "rev-parse" => r.ref = HEAD,
         UNCHANGED <<branch, pushed, walk>>
  PROVE  WebInv'
<1>1. Tail(req.calls) \in Seq(Calls) /\ Head(req.calls) \in Calls /\ call \in Calls
  BY DEF RequestType, Calls
<1>2. <<Head(req.calls), call>> \o Tail(req.calls) \in Seq(Calls)
      /\ Len(<<Head(req.calls), call>> \o Tail(req.calls)) > 1
  BY <1>1
<1>3. Tail(<<Head(req.calls), call>> \o Tail(req.calls)) = <<call>> \o Tail(req.calls)
  BY <1>1, TwoInFront, SMTT(30)
<1> DEFINE t == [r EXCEPT !.calls = <<Head(@), call>> \o Tail(@)]
<1>4. /\ t \in RequestType /\ t.calls = <<Head(req.calls), call>> \o Tail(req.calls) /\ t.kind = req.kind
      /\ t.refs = req.refs /\ t.lost = req.lost /\ t.missing = req.missing /\ t.fresh = req.fresh
      /\ t.excused = r.excused /\ t.ref = r.ref
  BY <1>2 DEF RequestType
<1>5. Show(t)
  BY DEF Then
<1> HIDE DEF t
<1>6. Len(t.calls) > 1 /\ Tail(t.calls) = <<call>> \o Tail(req.calls)
  BY <1>2, <1>3, <1>4
<1> QED
  BY <1>4, <1>5, <1>6, DefaultKeeps

\* symbolic-ref keeps the invariant.
LEMMA SymbolicRefKeeps == ASSUME WebInv, SymbolicRef PROVE WebInv'
<1>1. /\ req.calls # <<>> /\ Head(req.calls) \in {"symbolic-ref", "rev-parse", "firstRef"}
      /\ UNCHANGED <<branch, pushed, walk>>
  BY DEF SymbolicRef, Call, world
<1>2. HEAD \in Places /\ Main \in Places /\ req \in RequestType
  BY DEF Places, WebInv, WebTypeOK
<1>3. CASE Default(Main, TRUE)
  BY <1>1, <1>2, <1>3, DefaultSettles
<1>4. CASE Then("rev-parse", [req EXCEPT !.ref = HEAD])
  <2> DEFINE r == [req EXCEPT !.ref = HEAD]
  <2>1. /\ r \in RequestType /\ r.calls = req.calls /\ r.kind = req.kind /\ r.refs = req.refs
        /\ r.lost = req.lost /\ r.missing = req.missing /\ r.fresh = req.fresh
        /\ r.excused = req.excused /\ r.ref = HEAD
    BY <1>2 DEF RequestType
  <2>2. Then("rev-parse", r)
    BY <1>4
  <2> HIDE DEF r
  <2> QED
    BY <1>1, <2>1, <2>2, ThenKeeps
<1> QED
  BY <1>3, <1>4 DEF SymbolicRef

\* rev-parse keeps the invariant.
LEMMA RevParseKeeps == ASSUME WebInv, RevParse PROVE WebInv'
<1>1. Call("rev-parse") /\ UNCHANGED <<branch, pushed, walk>>
  BY DEF RevParse, world
<1>2. /\ req \in RequestType /\ req.calls # <<>> /\ Head(req.calls) = "rev-parse"
      /\ CallsOK(req) /\ ChosenOK(req)
  BY <1>1, AtCall
<1>3. req.ref = HEAD /\ Len(req.calls) > 1
  BY <1>2, AtDefault DEF ChosenOK
<1>4. CASE Exists(HEAD) /\ Show(req)
  BY <1>1, <1>2, <1>3, <1>4, DefaultKeeps
<1>5. CASE Then("firstRef", req)
  BY <1>1, <1>2, <1>5, ThenKeeps
<1>6. CASE Then("firstRef", [req EXCEPT !.excused = TRUE])
  <2> DEFINE r == [req EXCEPT !.excused = TRUE]
  <2>1. /\ r \in RequestType /\ r.calls = req.calls /\ r.kind = req.kind /\ r.refs = req.refs
        /\ r.lost = req.lost /\ r.missing = req.missing /\ r.fresh = req.fresh /\ r.excused
    BY <1>2 DEF RequestType
  <2>2. Then("firstRef", r)
    BY <1>6
  <2> HIDE DEF r
  <2> QED
    BY <1>1, <1>2, <2>1, <2>2, ThenKeeps
<1> QED
  BY <1>4, <1>5, <1>6 DEF RevParse

\* A set of naturals that is not empty has a least element.
LEMMA Least ==
  ASSUME NEW T \in SUBSET Nat, T # {}
  PROVE  \E x \in T : \A y \in T : x <= y
<1>1. \A x, y \in Nat : x < y => <<x, y>> \in OpToRel(<, Nat)
  BY DEF OpToRel
<1>2. \E x \in T : \A y \in T : ~ (<<y, x>> \in OpToRel(<, Nat))
  BY NatLessThanWellFounded, WFMin, Zenon
<1>3. PICK x \in T : \A y \in T : ~ (y < x)
  BY <1>1, <1>2, Zenon
<1>4. \A y \in T : x <= y
  BY <1>3
<1> QED
  BY <1>4

\* The first branch, or "main", keeps the invariant.
LEMMA FirstRefKeeps == ASSUME WebInv, FirstRef PROVE WebInv'
<1> DEFINE existing == {i \in DOMAIN Names : Exists(Names[i])}
           first == CHOOSE i \in existing : \A j \in existing : i <= j
           ref == IF existing = {} THEN Main ELSE Names[first]
<1>1. /\ Call("firstRef") /\ UNCHANGED <<branch, pushed, walk>>
      /\ Default(ref, FALSE) \/ Default(Main, TRUE)
  BY DEF FirstRef, world
<1>2. /\ req \in RequestType /\ req.calls # <<>> /\ Head(req.calls) = "firstRef"
      /\ CallsOK(req) /\ ChosenOK(req)
  BY <1>1, AtCall
<1>3. existing # {} => first \in existing
  <2>1. existing \in SUBSET Nat
    BY WebConstants, Given
  <2> QED
    BY <2>1, Least
<1>4. existing # {} => Exists(ref) /\ ref \in Refs
  BY <1>3, Existing
<1>5. ~Unborn => existing # {}
  BY WebConstants, Given DEF Unborn, Refs, Range
<1>6. ref \in Places /\ Main \in Places
  BY <1>4 DEF Places
<1> HIDE DEF existing, first, ref
<1>7. req.fresh /\ req.kind \in {"home", "log", "tree"}
  BY <1>2, AtDefault DEF Settled
<1>8. Exists(ref) \/ req.excused \/ req.lost # {}
  BY <1>2, <1>4, <1>5, <1>7 DEF ChosenOK
<1>9. CASE Default(ref, FALSE)
  BY <1>1, <1>2, <1>6, <1>8, <1>9, DefaultSettles
<1>10. CASE Default(Main, TRUE)
  BY <1>1, <1>2, <1>6, <1>10, DefaultSettles
<1> QED
  BY <1>1, <1>9, <1>10

\* What a request has seen at its end is what the links of its page name.
LEMMA SeenIsShown ==
  ASSUME NEW r, Exists(r.ref), \A n \in r.refs : Here(n, r.lost),
         r.kind = "blob" \/ (r.kind \in {"home", "tree"} /\ r.readme) => HasReadme(r.ref)
  PROVE  ShownOK(PageOf(r))
BY Existing DEF ShownOK, PageOf, Here, ReadmeHere, Linked

\* A ref that is not there was lost, or the request is excused.
LEMMA RefIsLost ==
  ASSUME WebInv, req.calls # <<>>, req.kind \in {"home", "log", "tree"}, ~Exists(req.ref),
         Head(req.calls) \in {"refs", "commitLog", "findReadme", "blobAt", "treeEntries"}
  PROVE  \/ req.ref \in req.lost
         \/ ~req.fresh /\ req.ref \in shown.lost
         \/ req.fresh /\ (req.lost # {} \/ req.excused)
<1>1. NamedOK(req, shown) /\ ChosenOK(req)
  BY AtCall DEF Call
<1>2. CASE req.fresh
  BY <1>1, <1>2 DEF ChosenOK
<1>3. CASE ~req.fresh
  BY <1>1, <1>3 DEF NamedOK, Here
<1> QED
  BY <1>2, <1>3

\* What is left of a request after refs, or after the first trip for a commit.
Later(kind, fresh, calls) ==
  \/ /\ kind = "home" /\ fresh
     /\ calls \in {<<"commitLog", "findReadme", "treeEntries">>, <<"findReadme", "treeEntries">>,
                   <<"blobAt", "treeEntries">>, <<"treeEntries">>}
  \/ kind = "log" /\ calls = <<"commitLog">>
  \/ kind = "tree" /\ calls = <<"treeEntries">>
  \/ kind = "diff" /\ fresh /\ calls = <<"submit">>

\* It is what may be.
LEMMA LaterCalls ==
  ASSUME NEW q, Later(q.kind, q.fresh, q.calls)
  PROVE  CallsOK(q) /\ Head(q.calls) # "rev-parse"
<1>1. CASE q.kind = "home"
  BY <1>1 DEF Later, CallsOK, HomeCalls
<1>2. CASE q.kind = "log"
  <2>1. q.calls = <<"commitLog">>
    BY <1>2 DEF Later
  <2> QED
    BY <1>2, <2>1 DEF CallsOK, LogCalls
<1>3. CASE q.kind = "tree"
  <2>1. q.calls = <<"treeEntries">>
    BY <1>3 DEF Later
  <2> QED
    BY <1>3, <2>1 DEF CallsOK, TreeCalls
<1>4. CASE q.kind = "diff"
  BY <1>4 DEF Later, CallsOK
<1> QED
  BY <1>1, <1>2, <1>3, <1>4 DEF Later

\* Once the ref is settled, a request goes on with it: as r, which may have seen more.
LEMMA GoesOnWithRef ==
  ASSUME WebInv, req.calls # <<>>, NEW r \in RequestType, Len(r.calls) > 1, Show(r),
         r.kind = req.kind, r.ref = req.ref, r.page = req.page, r.lost = req.lost,
         r.missing = req.missing, r.fresh = req.fresh, r.excused = req.excused,
         req.kind \in {"home", "log", "tree"} => Head(req.calls) \in {"refs", "commitLog", "findReadme", "blobAt"},
         Later(r.kind, r.fresh, Tail(r.calls)),
         \A n \in r.refs : Here(n, r.lost),
         r.kind \in {"diff", "rawDiff"} => r.refs = {},
         r.kind = "home" /\ Head(Tail(r.calls)) = "blobAt" => ReadmeHere(r.ref, r.lost),
         UNCHANGED <<branch, pushed, walk>>
  PROVE  WebInv'
<1>1. /\ ~req.missing /\ NamedOK(req, shown) /\ ChosenOK(req)
      /\ walk.ref # Nothing => Follows(req)
  BY AtCall DEF Call
<1> DEFINE q == Popped(r)
<1>2. r.calls # <<>>
  OBVIOUS
<1>3. /\ q.calls = Tail(r.calls) /\ q.kind = r.kind /\ q.ref = r.ref /\ q.refs = r.refs /\ q.page = r.page
      /\ q.lost = r.lost /\ q.missing = r.missing /\ q.fresh = r.fresh /\ q.excused = r.excused
  BY <1>2, PoppedFields
<1> HIDE DEF q
<1>4. CallsOK(q) /\ Head(q.calls) # "rev-parse"
  <2>1. Later(q.kind, q.fresh, q.calls)
    BY <1>3, Zenon
  <2> QED
    BY <2>1, LaterCalls
<1>5. NamedOK(q, shown)
  BY <1>1, <1>3 DEF NamedOK
<1>6. ChosenOK(q)
  BY <1>1, <1>3, <1>4 DEF ChosenOK
<1>7. SeenOK(q)
  BY <1>3 DEF SeenOK
<1>8. walk.ref # Nothing => Follows(q)
  BY <1>1, <1>3 DEF Follows
<1> QED
  BY <1>1, <1>3, <1>4, <1>5, <1>6, <1>7, <1>8, ShowGoesOn DEF RequestOK, q

\* What is left of a request at refs.
LEMMA AtRefs ==
  ASSUME CallsOK(req), Head(req.calls) = "refs"
  PROVE  /\ req.kind \in {"home", "log", "tree"} /\ Len(req.calls) > 1
         /\ Later(req.kind, req.fresh, Tail(req.calls)) /\ Head(Tail(req.calls)) # "blobAt"
<1>1. \/ req.kind = "home" /\ req.fresh /\ req.calls = <<"refs", "commitLog", "findReadme", "treeEntries">>
      \/ req.kind = "log" /\ req.calls = <<"refs", "commitLog">>
      \/ req.kind = "tree" /\ req.calls = <<"refs", "treeEntries">>
  BY DEF CallsOK, HomeCalls, LogCalls, TreeCalls
<1>2. CASE req.kind = "home"
  <2>1. req.fresh /\ req.calls = <<"refs", "commitLog", "findReadme", "treeEntries">>
    BY <1>1, <1>2
  <2>2. Len(req.calls) > 1 /\ Tail(req.calls) = <<"commitLog", "findReadme", "treeEntries">>
    BY <2>1
  <2> QED
    BY <1>2, <2>1, <2>2 DEF Later
<1>3. CASE req.kind = "log"
  <2>1. req.calls = <<"refs", "commitLog">>
    BY <1>1, <1>3
  <2>2. Len(req.calls) > 1 /\ Tail(req.calls) = <<"commitLog">>
    BY <2>1
  <2>3. Later(req.kind, req.fresh, Tail(req.calls))
    BY <1>3, <2>2, Zenon DEF Later
  <2>4. Head(Tail(req.calls)) # "blobAt"
    <3>1. Head(<<"commitLog">>) # "blobAt"
      OBVIOUS
    <3> QED
      BY <2>2, <3>1, Zenon
  <2> QED
    BY <1>3, <2>2, <2>3, <2>4
<1>4. CASE req.kind = "tree"
  <2>1. req.calls = <<"refs", "treeEntries">>
    BY <1>1, <1>4
  <2>2. Len(req.calls) > 1 /\ Tail(req.calls) = <<"treeEntries">>
    BY <2>1
  <2>3. Later(req.kind, req.fresh, Tail(req.calls))
    BY <1>4, <2>2, Zenon DEF Later
  <2>4. Head(Tail(req.calls)) # "blobAt"
    <3>1. Head(<<"treeEntries">>) # "blobAt"
      OBVIOUS
    <3> QED
      BY <2>2, <3>1, Zenon
  <2> QED
    BY <1>4, <2>2, <2>3, <2>4
<1> QED
  BY <1>1, <1>2, <1>3, <1>4

\* The ref selector keeps the invariant.
LEMMA ListRefsKeeps == ASSUME WebInv, ListRefs PROVE WebInv'
<1> DEFINE r == [req EXCEPT !.refs = {n \in Refs : Exists(n)}]
<1>1. Call("refs") /\ Show(r) /\ UNCHANGED <<branch, pushed, walk>>
  BY DEF ListRefs, world
<1>2. req \in RequestType /\ req.calls # <<>> /\ Head(req.calls) = "refs" /\ CallsOK(req)
  BY <1>1, AtCall
<1>3. /\ r \in RequestType /\ r.calls = req.calls /\ r.kind = req.kind /\ r.ref = req.ref
      /\ r.page = req.page /\ r.lost = req.lost /\ r.missing = req.missing /\ r.fresh = req.fresh
      /\ r.excused = req.excused /\ r.refs = {n \in Refs : Exists(n)}
  BY <1>2 DEF RequestType
<1> HIDE DEF r
<1>4. /\ req.kind \in {"home", "log", "tree"} /\ Len(req.calls) > 1
      /\ Later(req.kind, req.fresh, Tail(req.calls)) /\ Head(Tail(req.calls)) # "blobAt"
  BY <1>2, AtRefs
<1>5. Later(r.kind, r.fresh, Tail(r.calls)) /\ Head(Tail(r.calls)) # "blobAt" /\ Len(r.calls) > 1
  BY <1>3, <1>4, Zenon
<1>6. \A n \in r.refs : Here(n, r.lost)
  BY <1>3 DEF Here
<1> QED
  BY <1>1, <1>2, <1>3, <1>4, <1>5, <1>6, GoesOnWithRef

\* What is left of a request at findReadme.
LEMMA AtFindReadme ==
  ASSUME CallsOK(req), Head(req.calls) = "findReadme"
  PROVE  /\ req.kind = "home" /\ req.fresh /\ Len(req.calls) > 1
         /\ Tail(req.calls) = <<"treeEntries">>
<1>1. req.kind = "home" /\ req.fresh /\ req.calls = <<"findReadme", "treeEntries">>
  BY DEF CallsOK, HomeCalls, LogCalls, TreeCalls
<1> QED
  BY <1>1

\* findReadme keeps the invariant.
LEMMA FindReadmeKeeps == ASSUME WebInv, FindReadme PROVE WebInv'
<1>1. Call("findReadme") /\ UNCHANGED <<branch, pushed, walk>>
  BY DEF FindReadme, world
<1>2. /\ req \in RequestType /\ req.calls # <<>> /\ Head(req.calls) = "findReadme"
      /\ CallsOK(req) /\ SeenOK(req)
  BY <1>1, AtCall
<1>3. /\ req.kind = "home" /\ req.fresh /\ Len(req.calls) > 1
      /\ Tail(req.calls) = <<"treeEntries">>
  BY <1>2, AtFindReadme
<1>4. \A n \in req.refs : Here(n, req.lost)
  BY <1>2 DEF SeenOK
<1>5. CASE ~Exists(req.ref) /\ Missing
  <2>1. \/ req.ref \in req.lost
        \/ ~req.fresh /\ req.ref \in shown.lost
        \/ req.fresh /\ (req.lost # {} \/ req.excused)
    BY <1>2, <1>3, <1>5, RefIsLost
  <2> QED
    BY <1>1, <1>5, <2>1, MissingKeeps
<1>6. CASE Show(req)
  <2>1. Later(req.kind, req.fresh, Tail(req.calls))
    BY <1>3, Zenon DEF Later
  <2>2. Head(Tail(req.calls)) # "blobAt"
    <3>1. Head(<<"treeEntries">>) # "blobAt"
      OBVIOUS
    <3> QED
      BY <1>3, <3>1, Zenon
  <2> QED
    BY <1>1, <1>2, <1>3, <1>4, <1>6, <2>1, <2>2, GoesOnWithRef
<1>7. CASE /\ Exists(req.ref) /\ Head(Lists(req.ref)).readme
           /\ Show([req EXCEPT !.calls = <<"findReadme", "blobAt">> \o Tail(@)])
  <2>1. Tail(req.calls) \in Seq(Calls) /\ "findReadme" \in Calls /\ "blobAt" \in Calls
    BY <1>2 DEF RequestType, Calls
  <2>2. /\ <<"findReadme", "blobAt">> \o Tail(req.calls) \in Seq(Calls)
        /\ Len(<<"findReadme", "blobAt">> \o Tail(req.calls)) > 1
    BY <2>1
  <2>3. Tail(<<"findReadme", "blobAt">> \o Tail(req.calls)) = <<"blobAt", "treeEntries">>
    <3>1. Tail(<<"findReadme", "blobAt">> \o Tail(req.calls)) = <<"blobAt">> \o Tail(req.calls)
      BY <2>1, TwoInFront
    <3>2. <<"blobAt">> \o <<"treeEntries">> = <<"blobAt", "treeEntries">>
      BY Cons1
    <3> QED
      BY <1>3, <3>1, <3>2, Zenon
  <2> DEFINE r == [req EXCEPT !.calls = <<"findReadme", "blobAt">> \o Tail(@)]
  <2>4. /\ r \in RequestType /\ r.calls = <<"findReadme", "blobAt">> \o Tail(req.calls)
        /\ r.kind = req.kind /\ r.ref = req.ref /\ r.refs = req.refs
        /\ r.page = req.page /\ r.lost = req.lost /\ r.missing = req.missing /\ r.fresh = req.fresh
        /\ r.excused = req.excused
    BY <1>2, <2>2 DEF RequestType
  <2>5. Show(r)
    BY <1>7
  <2> HIDE DEF r
  <2>6. Len(r.calls) > 1 /\ Tail(r.calls) = <<"blobAt", "treeEntries">>
    BY <2>2, <2>3, <2>4
  <2>7. Later(r.kind, r.fresh, Tail(r.calls))
    BY <1>3, <2>4, <2>6, Zenon DEF Later
  <2>8. ReadmeHere(r.ref, r.lost)
    BY <1>7, <2>4 DEF ReadmeHere, HasReadme
  <2>9. \A n \in r.refs : Here(n, r.lost)
    BY <1>4, <2>4
  <2> QED
    BY <1>1, <1>2, <1>3, <2>4, <2>5, <2>6, <2>7, <2>8, <2>9, GoesOnWithRef
<1> QED
  BY <1>5, <1>6, <1>7 DEF FindReadme

\* What is left of a request at diffOf.
LEMMA AtDiffOf ==
  ASSUME CallsOK(req), Head(req.calls) = "diffOf"
  PROVE  \/ req.kind = "diff" /\ req.fresh /\ Len(req.calls) > 1 /\ Tail(req.calls) = <<"submit">>
         \/ req.kind = "rawDiff" /\ ~(Len(req.calls) > 1) /\ Len(req.calls) = 1
<1>1. \/ req.kind = "diff" /\ req.fresh /\ req.calls = <<"diffOf", "submit">>
      \/ req.kind = "rawDiff" /\ req.calls = <<"diffOf">>
  BY DEF CallsOK, HomeCalls, LogCalls, TreeCalls
<1>2. CASE req.calls = <<"diffOf", "submit">>
  <2>1. Len(req.calls) > 1 /\ Tail(req.calls) = <<"submit">> /\ req.calls # <<"diffOf">>
    BY <1>2
  <2> QED
    BY <1>1, <2>1
<1>3. CASE req.calls = <<"diffOf">>
  <2>1. Len(req.calls) = 1 /\ req.calls # <<"diffOf", "submit">>
    BY <1>3
  <2> QED
    BY <1>1, <2>1
<1> QED
  BY <1>1, <1>2, <1>3

\* diffOf keeps the invariant.
LEMMA DiffOfKeeps == ASSUME WebInv, DiffOf PROVE WebInv'
<1>1. Call("diffOf") /\ Show(req) /\ UNCHANGED <<branch, pushed, walk>>
  BY DEF DiffOf, world
<1>2. /\ req \in RequestType /\ req.calls # <<>> /\ Head(req.calls) = "diffOf"
      /\ CallsOK(req) /\ SeenOK(req)
      /\ walk.ref # Nothing => Follows(req)
  BY <1>1, AtCall
<1>3. CASE req.kind = "diff" /\ req.fresh /\ Len(req.calls) > 1 /\ Tail(req.calls) = <<"submit">>
  <2>1. Later(req.kind, req.fresh, Tail(req.calls))
    BY <1>3, Zenon DEF Later
  <2> QED
    BY <1>1, <1>2, <1>3, <2>1, GoesOnWithRef DEF SeenOK
<1>4. CASE req.kind = "rawDiff" /\ Len(req.calls) = 1
  <2>1. walk.ref = Nothing
    BY <1>2, <1>4 DEF Follows
  <2>2. WalkOK'
    BY <1>1, <2>1 DEF WalkOK
  <2> QED
    BY <1>1, <1>2, <1>4, <2>2, ShowEnds DEF WebInv, WebTypeOK
<1> QED
  BY <1>2, <1>3, <1>4, AtDiffOf

\* What is left of a request at blobAt.
LEMMA AtBlobAt ==
  ASSUME CallsOK(req), Head(req.calls) = "blobAt"
  PROVE  \/ req.kind = "home" /\ req.fresh /\ Len(req.calls) > 1 /\ Tail(req.calls) = <<"treeEntries">>
         \/ req.kind \in {"blob", "raw"} /\ ~req.fresh /\ Len(req.calls) = 1
<1>1. \/ req.kind = "home" /\ req.fresh /\ req.calls = <<"blobAt", "treeEntries">>
      \/ req.kind \in {"blob", "raw"} /\ ~req.fresh /\ req.calls = <<"blobAt">>
  BY DEF CallsOK, HomeCalls, LogCalls, TreeCalls
<1>2. CASE req.calls = <<"blobAt", "treeEntries">>
  <2>1. Len(req.calls) > 1 /\ Tail(req.calls) = <<"treeEntries">> /\ req.calls # <<"blobAt">>
    BY <1>2
  <2> QED
    BY <1>1, <2>1
<1>3. CASE req.calls = <<"blobAt">>
  <2>1. Len(req.calls) = 1 /\ req.calls # <<"blobAt", "treeEntries">>
    BY <1>3
  <2> QED
    BY <1>1, <2>1
<1> QED
  BY <1>1, <1>2, <1>3

\* blobAt keeps the invariant.
LEMMA BlobAtKeeps == ASSUME WebInv, BlobAt PROVE WebInv'
<1>1. Call("blobAt") /\ UNCHANGED <<branch, pushed, walk>>
  BY DEF BlobAt, world
<1>2. /\ req \in RequestType /\ req.calls # <<>> /\ Head(req.calls) = "blobAt"
      /\ CallsOK(req) /\ NamedOK(req, shown) /\ SeenOK(req)
      /\ walk.ref # Nothing => Follows(req)
  BY <1>1, AtCall
<1>3. \/ req.kind = "home" /\ req.fresh /\ Len(req.calls) > 1 /\ Tail(req.calls) = <<"treeEntries">>
      \/ req.kind \in {"blob", "raw"} /\ ~req.fresh /\ Len(req.calls) = 1
  BY <1>2, AtBlobAt
<1>4. \A n \in req.refs : Here(n, req.lost)
  BY <1>2 DEF SeenOK
<1>5. CASE ~HasReadme(req.ref) /\ Missing
  <2>1. \/ req.ref \in req.lost
        \/ ~req.fresh /\ req.ref \in shown.lost
    <3>1. CASE req.kind = "home"
      BY <1>2, <1>5, <3>1 DEF SeenOK, ReadmeHere
    <3>2. CASE req.kind \in {"blob", "raw"} /\ ~req.fresh
      BY <1>2, <1>5, <3>2 DEF NamedOK, ReadmeHere
    <3> QED
      BY <1>3, <3>1, <3>2
  <2> QED
    BY <1>1, <1>5, <2>1, MissingKeeps
<1>6. CASE Show(req) /\ req.kind = "home"
  <2>1. Later(req.kind, req.fresh, Tail(req.calls))
    BY <1>3, <1>6, Zenon DEF Later
  <2>2. Head(Tail(req.calls)) # "blobAt"
    <3>1. Head(<<"treeEntries">>) # "blobAt"
      OBVIOUS
    <3> QED
      BY <1>3, <1>6, <3>1, Zenon
  <2>3. Len(req.calls) > 1
    BY <1>3, <1>6, Zenon
  <2> QED
    BY <1>1, <1>2, <1>4, <1>6, <2>1, <2>2, <2>3, GoesOnWithRef
<1>7. CASE HasReadme(req.ref) /\ Show(req) /\ req.kind \in {"blob", "raw"}
  <2>1. ShownOK(PageOf(req))
    BY <1>4, <1>7, SeenIsShown DEF HasReadme
  <2>2. walk.ref = Nothing
    BY <1>2, <1>7 DEF Follows
  <2>3. WalkOK'
    BY <1>1, <2>2 DEF WalkOK
  <2>4. Len(req.calls) = 1
    BY <1>3, <1>7
  <2> QED
    BY <1>1, <1>2, <1>7, <2>1, <2>3, <2>4, ShowEnds DEF WebInv, WebTypeOK
<1> QED
  BY <1>3, <1>5, <1>6, <1>7 DEF BlobAt, HasReadme

\* What is left of a request at treeEntries.
LEMMA AtTreeEntries ==
  ASSUME CallsOK(req), Head(req.calls) = "treeEntries"
  PROVE  req.kind \in {"home", "tree"} /\ Len(req.calls) = 1
<1>1. req.kind \in {"home", "tree"} /\ req.calls = <<"treeEntries">>
  BY DEF CallsOK, HomeCalls, LogCalls, TreeCalls
<1> QED
  BY <1>1

\* treeEntries keeps the invariant.
LEMMA TreeEntriesKeeps == ASSUME WebInv, TreeEntries PROVE WebInv'
<1>1. Call("treeEntries") /\ UNCHANGED <<branch, pushed, walk>>
  BY DEF TreeEntries, world
<1>2. /\ req \in RequestType /\ req.calls # <<>> /\ Head(req.calls) = "treeEntries"
      /\ CallsOK(req) /\ SeenOK(req)
      /\ walk.ref # Nothing => Follows(req)
  BY <1>1, AtCall
<1>3. req.kind \in {"home", "tree"} /\ Len(req.calls) = 1
  BY <1>2, AtTreeEntries
<1>4. CASE ~Exists(req.ref) /\ Missing
  <2>1. \/ req.ref \in req.lost
        \/ ~req.fresh /\ req.ref \in shown.lost
        \/ req.fresh /\ (req.lost # {} \/ req.excused)
    BY <1>2, <1>3, <1>4, RefIsLost
  <2> QED
    BY <1>1, <1>4, <2>1, MissingKeeps
<1>5. CASE Exists(req.ref) /\ Show([req EXCEPT !.readme = Head(Lists(req.ref)).readme])
  <2> DEFINE r == [req EXCEPT !.readme = Head(Lists(req.ref)).readme]
  <2>1. Head(Lists(req.ref)).readme \in BOOLEAN
    <3>1. req.ref \in Refs /\ Lists(req.ref) = branch[req.ref] /\ branch[req.ref] # <<>>
      BY <1>5, Existing
    <3>2. branch[req.ref] \in Seq(Commits)
      BY <3>1 DEF WebInv, WebTypeOK
    <3>3. Head(branch[req.ref]) \in Commits
      BY <3>1, <3>2
    <3> QED
      BY <3>1, <3>3 DEF Commits
  <2>2. /\ r \in RequestType /\ r.calls = req.calls /\ r.kind = req.kind /\ r.ref = req.ref
        /\ r.refs = req.refs /\ r.lost = req.lost /\ r.readme = Head(Lists(req.ref)).readme
    BY <1>2, <2>1 DEF RequestType
  <2>3. Show(r)
    BY <1>5
  <2> HIDE DEF r
  <2>4. ShownOK(PageOf(r))
    <3>1. r.readme => HasReadme(r.ref)
      BY <1>5, <2>2 DEF HasReadme
    <3>2. \A n \in r.refs : Here(n, r.lost)
      BY <1>2, <2>2 DEF SeenOK
    <3>3. Exists(r.ref) /\ r.kind # "blob"
      BY <1>3, <1>5, <2>2
    <3> QED
      BY <3>1, <3>2, <3>3, SeenIsShown
  <2>5. walk.ref = Nothing
    BY <1>2, <1>3 DEF Follows
  <2>6. WalkOK'
    BY <1>1, <2>5 DEF WalkOK
  <2>7. Len(r.calls) = 1
    BY <1>3, <2>2
  <2> QED
    BY <1>1, <2>2, <2>3, <2>4, <2>6, <2>7, ShowEnds DEF WebInv, WebTypeOK
<1> QED
  BY <1>4, <1>5 DEF TreeEntries

-----------------------------------------------------------------------------
(* the requests *)

\* The lists of calls that a handler makes, behind submit.
LEMMA HandlerLists ==
  /\ <<"hasRef", "symbolic-ref", "refs", "commitLog", "findReadme", "treeEntries">> \in Seq(Calls)
  /\ <<"symbolic-ref", "refs", "commitLog">> \in Seq(Calls)
  /\ <<"refs", "commitLog">> \in Seq(Calls)
  /\ <<"symbolic-ref", "refs", "treeEntries">> \in Seq(Calls)
  /\ <<"refs", "treeEntries">> \in Seq(Calls)
  /\ <<"blobAt">> \in Seq(Calls)
  /\ <<"diffOf", "submit">> \in Seq(Calls)
  /\ <<"diffOf">> \in Seq(Calls)
<1>1. <<"hasRef", "symbolic-ref", "refs", "commitLog", "findReadme", "treeEntries">> \in Seq(Calls)
  BY DEF Calls
<1>2. <<"symbolic-ref", "refs", "commitLog">> \in Seq(Calls)
  BY DEF Calls
<1>3. <<"refs", "commitLog">> \in Seq(Calls)
  BY DEF Calls
<1>4. <<"symbolic-ref", "refs", "treeEntries">> \in Seq(Calls)
  BY DEF Calls
<1>5. <<"refs", "treeEntries">> \in Seq(Calls)
  BY DEF Calls
<1>6. <<"blobAt">> \in Seq(Calls)
  BY DEF Calls
<1>7. <<"diffOf", "submit">> \in Seq(Calls)
  BY DEF Calls
<1>8. <<"diffOf">> \in Seq(Calls)
  BY DEF Calls
<1> QED
  BY <1>1, <1>2, <1>3, <1>4, <1>5, <1>6, <1>7, <1>8

\* What the handlers make of a URL.
LEMMA Handlers ==
  ASSUME NEW ref
  PROVE  /\ ref = Nothing => Handler("home", ref) = <<"hasRef", "symbolic-ref", "refs", "commitLog", "findReadme", "treeEntries">>
         /\ ref = Nothing => Handler("log", ref) = <<"symbolic-ref", "refs", "commitLog">>
         /\ ref # Nothing => Handler("log", ref) = <<"refs", "commitLog">>
         /\ ref = Nothing => Handler("tree", ref) = <<"symbolic-ref", "refs", "treeEntries">>
         /\ ref # Nothing => Handler("tree", ref) = <<"refs", "treeEntries">>
         /\ ref # Nothing => Handler("blob", ref) = <<"blobAt">> /\ Handler("raw", ref) = <<"blobAt">>
         /\ Handler("diff", ref) = <<"diffOf", "submit">> /\ Handler("rawDiff", ref) = <<"diffOf">>
<1>1. /\ Handler("home", ref) = handleRepoHome(ref) /\ Handler("log", ref) = handleLog(ref)
      /\ Handler("tree", ref) = handleTree(ref) /\ Handler("blob", ref) = handleBlob(ref)
      /\ Handler("raw", ref) = handleRaw(ref) /\ Handler("diff", ref) = handleDiff(FALSE)
      /\ Handler("rawDiff", ref) = handleDiff(TRUE)
  BY DEF Handler
<1>2. /\ ref = Nothing => defaultRef(ref) = <<"symbolic-ref">>
      /\ ref # Nothing => defaultRef(ref) = <<>>
  BY DEF defaultRef
<1>3. ref = Nothing => handleRepoHome(ref) = <<"hasRef", "symbolic-ref", "refs", "commitLog", "findReadme", "treeEntries">>
  <2>1. PICK s : s = <<"refs", "commitLog", "findReadme", "treeEntries">>
    OBVIOUS
  <2>2. s \in Seq(Calls) /\ "hasRef" \in Calls /\ "symbolic-ref" \in Calls
    BY <2>1 DEF Calls
  <2>3. (<<"hasRef">> \o <<"symbolic-ref">>) \o s = <<"hasRef">> \o (<<"symbolic-ref">> \o s)
    BY <2>2, TwoInFront
  <2>4. <<"symbolic-ref">> \o s = <<"symbolic-ref", "refs", "commitLog", "findReadme", "treeEntries">>
    BY <2>1, Cons4
  <2>5. <<"hasRef">> \o <<"symbolic-ref", "refs", "commitLog", "findReadme", "treeEntries">>
        = <<"hasRef", "symbolic-ref", "refs", "commitLog", "findReadme", "treeEntries">>
    BY Cons5
  <2> QED
    BY <1>2, <2>1, <2>3, <2>4, <2>5, Zenon DEF handleRepoHome
<1>4. ref = Nothing => handleLog(ref) = <<"symbolic-ref", "refs", "commitLog">>
  <2>1. <<"symbolic-ref">> \o <<"refs", "commitLog">> = <<"symbolic-ref", "refs", "commitLog">>
    BY Cons2
  <2> QED
    BY <1>2, <2>1, Zenon DEF handleLog
<1>5. ref = Nothing => handleTree(ref) = <<"symbolic-ref", "refs", "treeEntries">>
  <2>1. <<"symbolic-ref">> \o <<"refs", "treeEntries">> = <<"symbolic-ref", "refs", "treeEntries">>
    BY Cons2
  <2> QED
    BY <1>2, <2>1, Zenon DEF handleTree
<1>6. ASSUME NEW s \in Seq(Calls) PROVE <<>> \o s = s
  OBVIOUS
<1>7. ref # Nothing => handleLog(ref) = <<"refs", "commitLog">> /\ handleTree(ref) = <<"refs", "treeEntries">>
  <2>1. <<>> \o <<"refs", "commitLog">> = <<"refs", "commitLog">>
    BY <1>6, HandlerLists, Zenon
  <2>2. <<>> \o <<"refs", "treeEntries">> = <<"refs", "treeEntries">>
    BY <1>6, HandlerLists, Zenon
  <2> QED
    BY <1>2, <2>1, <2>2, Zenon DEF handleLog, handleTree
<1>8. ref # Nothing => handleBlob(ref) = <<"blobAt">> /\ handleRaw(ref) = <<"blobAt">>
  <2>1. <<>> \o <<"blobAt">> = <<"blobAt">>
    BY <1>6, HandlerLists, Zenon
  <2> QED
    BY <1>2, <2>1, Zenon DEF handleBlob, handleRaw
<1>9. handleDiff(FALSE) = <<"diffOf", "submit">> /\ handleDiff(TRUE) = <<"diffOf">>
  BY DEF handleDiff
<1> QED
  BY <1>1, <1>3, <1>4, <1>5, <1>7, <1>8, <1>9, Zenon

\* A request begins with submit, and its calls are those of its kind.
LEMMA FirstCalls ==
  ASSUME NEW r, NEW ref, r.fresh = (ref = Nothing), r.calls = <<"submit">> \o Handler(r.kind, ref),
         \/ r.kind = "home" /\ ref = Nothing
         \/ r.kind \in {"log", "tree"}
         \/ r.kind \in {"blob", "raw"} /\ ref # Nothing
         \/ r.kind \in {"diff", "rawDiff"} /\ ref = Nothing
  PROVE  CallsOK(r) /\ Head(r.calls) = "submit" /\ r.calls \in Seq(Calls) /\ r.calls # <<>>
<1>1. ASSUME NEW s \in Seq(Calls), Handler(r.kind, ref) = s
      PROVE  r.calls \in Seq(Calls) /\ r.calls # <<>> /\ Head(r.calls) = "submit"
  <2>1. "submit" \in Calls
    BY DEF Calls
  <2> QED
    BY <1>1, <2>1
<1>2. Handler(r.kind, ref) \in Seq(Calls)
  BY Handlers, HandlerLists, Zenon
<1>3. CallsOK(r)
  <2>1. CASE r.kind = "home" /\ r.fresh
    <3>1. Handler(r.kind, ref) = <<"hasRef", "symbolic-ref", "refs", "commitLog", "findReadme", "treeEntries">>
      BY <2>1, Handlers, Zenon
    <3>2. r.calls = <<"submit", "hasRef", "symbolic-ref", "refs", "commitLog", "findReadme", "treeEntries">>
      BY <3>1, Cons6
    <3> QED
      BY <2>1, <3>2 DEF CallsOK, HomeCalls
  <2>2. CASE r.kind = "log" /\ r.fresh
    <3>1. Handler(r.kind, ref) = <<"symbolic-ref", "refs", "commitLog">>
      BY <2>2, Handlers, Zenon
    <3>2. r.calls = <<"submit", "symbolic-ref", "refs", "commitLog">>
      BY <3>1, Cons3
    <3> QED
      BY <2>2, <3>2 DEF CallsOK, LogCalls
  <2>3. CASE r.kind = "log" /\ ~r.fresh
    <3>1. Handler(r.kind, ref) = <<"refs", "commitLog">>
      BY <2>3, Handlers, Zenon
    <3>2. r.calls = <<"submit", "refs", "commitLog">>
      BY <3>1, Cons2
    <3> QED
      BY <2>3, <3>2 DEF CallsOK, LogCalls
  <2>4. CASE r.kind = "tree" /\ r.fresh
    <3>1. Handler(r.kind, ref) = <<"symbolic-ref", "refs", "treeEntries">>
      BY <2>4, Handlers, Zenon
    <3>2. r.calls = <<"submit", "symbolic-ref", "refs", "treeEntries">>
      BY <3>1, Cons3
    <3> QED
      BY <2>4, <3>2 DEF CallsOK, TreeCalls
  <2>5. CASE r.kind = "tree" /\ ~r.fresh
    <3>1. Handler(r.kind, ref) = <<"refs", "treeEntries">>
      BY <2>5, Handlers, Zenon
    <3>2. r.calls = <<"submit", "refs", "treeEntries">>
      BY <3>1, Cons2
    <3> QED
      BY <2>5, <3>2 DEF CallsOK, TreeCalls
  <2>6. CASE r.kind \in {"blob", "raw"} /\ ~r.fresh
    <3>1. Handler(r.kind, ref) = <<"blobAt">>
      BY <2>6, Handlers, Zenon
    <3>2. r.calls = <<"submit", "blobAt">>
      BY <3>1, Cons1
    <3> QED
      BY <2>6, <3>2 DEF CallsOK
  <2>7. CASE r.kind = "diff" /\ r.fresh
    <3>1. Handler(r.kind, ref) = <<"diffOf", "submit">>
      BY <2>7, Handlers, Zenon
    <3>2. r.calls = <<"submit", "diffOf", "submit">>
      BY <3>1, Cons2
    <3> QED
      BY <2>7, <3>2 DEF CallsOK
  <2>8. CASE r.kind = "rawDiff" /\ r.fresh
    <3>1. Handler(r.kind, ref) = <<"diffOf">>
      BY <2>8, Handlers, Zenon
    <3>2. r.calls = <<"submit", "diffOf">>
      BY <3>1, Cons1
    <3> QED
      BY <2>8, <3>2 DEF CallsOK
  <2> QED
    BY <2>1, <2>2, <2>3, <2>4, <2>5, <2>6, <2>7, <2>8
<1> QED
  BY <1>1, <1>2, <1>3

\* A request for a page keeps the invariant, if what it names was there when the page
\* with the link was rendered.
LEMMA RequestKeeps ==
  ASSUME WebInv, NEW kind \in PageKinds, NEW ref \in Refs \cup {Nothing}, NEW page \in Nat,
         Request(kind, ref, page),
         \/ kind = "home" /\ ref = Nothing
         \/ kind \in {"log", "tree"}
         \/ kind \in {"blob", "raw"} /\ ref # Nothing
         \/ kind \in {"diff", "rawDiff"} /\ ref = Nothing,
         ref # Nothing => Here(ref, shown.lost),
         kind \in {"blob", "raw"} => ReadmeHere(ref, shown.lost),
         \/ walk' = NoWalk
         \/ /\ UNCHANGED walk
            /\ walk.ref # Nothing => kind = "log" /\ ref = walk.ref /\ page <= shown.page + 1
  PROVE  WebInv'
<1> DEFINE q == [NoRequest EXCEPT !.kind = kind, !.ref = ref, !.page = page, !.fresh = ref = Nothing,
                   !.excused = kind # "home" /\ Unborn, !.calls = <<"submit">> \o Handler(kind, ref)]
<1>1. req' = q /\ UNCHANGED <<branch, pushed, shown>>
  BY DEF Request
<1>2. /\ q.kind = kind /\ q.ref = ref /\ q.page = page /\ q.fresh = (ref = Nothing)
      /\ q.excused = (kind # "home" /\ Unborn) /\ q.calls = <<"submit">> \o Handler(kind, ref)
      /\ q.refs = {} /\ q.lost = {} /\ q.missing = FALSE /\ q.size = 0 /\ q.readme = FALSE
  BY DEF NoRequest
<1> HIDE DEF q
<1>3. CallsOK(q) /\ Head(q.calls) = "submit" /\ q.calls \in Seq(Calls) /\ q.calls # <<>>
  BY <1>2, FirstCalls
<1>4. q \in RequestType
  <2>1. kind \in Kinds /\ ref \in Places /\ <<"submit">> \o Handler(kind, ref) \in Seq(Calls)
    BY <1>2, <1>3 DEF Kinds, Places
  <2>2. (ref = Nothing) \in BOOLEAN /\ (kind # "home" /\ Unborn) \in BOOLEAN
    OBVIOUS
  <2> QED
    BY <2>1, <2>2, EmptyTypes, Given DEF RequestType, q
<1>5. NamedOK(q, shown)
  BY <1>2, WebConstants, Given DEF NamedOK, Here, ReadmeHere
<1>6. ChosenOK(q) /\ SeenOK(q)
  BY <1>2, <1>3 DEF ChosenOK, SeenOK
<1>7. UNCHANGED walk => (walk.ref # Nothing => Follows(q)) \/ walk' = NoWalk
  BY <1>2, WebConstants, Given DEF Follows
<1> QED
  BY <1>1, <1>2, <1>3, <1>4, <1>5, <1>6, <1>7, GoesOn DEF RequestOK

\* A page with links to its ref names one that was there.
LEMMA Shown ==
  ASSUME WebInv
  PROVE  /\ shown \in PageType
         /\ shown.kind \in {"home", "log", "tree", "blob"} => shown.ref \in Refs /\ Here(shown.ref, shown.lost)
         /\ shown.refs \in SUBSET Refs /\ \A n \in shown.refs : Here(n, shown.lost)
         /\ shown.kind = "blob" \/ (shown.kind \in {"home", "tree"} /\ shown.readme) => ReadmeHere(shown.ref, shown.lost)
BY DEF WebInv, WebTypeOK, ShownOK, PageType

\* The requests keep the invariant.
LEMMA RequestsKeep ==
  ASSUME WebInv, Open \/ FollowTab \/ FollowLink \/ FollowOlder \/ FollowNewer
  PROVE  WebInv'
<1>1. Nothing \notin Refs /\ PageKinds = {"home", "log", "tree", "blob", "raw", "diff", "rawDiff"}
  BY WebConstants, Given DEF PageKinds
<1>2. CASE Open
  <2>1. PICK kind \in {"home", "log", "tree"} : Request(kind, Nothing, 0)
    BY <1>2 DEF Open
  <2>2. walk' = NoWalk
    BY <1>2 DEF Open
  <2> QED
    BY <1>1, <2>1, <2>2, RequestKeeps
<1>3. CASE FollowTab
  <2>1. walk' = NoWalk /\ shown.kind \in {"home", "log", "tree"}
    BY <1>3 DEF FollowTab
  <2>2. CASE Request("home", Nothing, 0)
    BY <1>1, <2>1, <2>2, RequestKeeps
  <2>3. CASE \E kind \in {"log", "tree"} : Request(kind, shown.ref, 0)
    BY <1>1, <2>1, <2>3, Shown, RequestKeeps
  <2>4. CASE \E n \in shown.refs : Request("tree", n, 0)
    <3>1. PICK n \in shown.refs : Request("tree", n, 0)
      BY <2>4
    <3>2. n \in Refs /\ Here(n, shown.lost)
      BY Shown
    <3> QED
      BY <1>1, <2>1, <3>1, <3>2, RequestKeeps
  <2> QED
    BY <1>3, <2>2, <2>3, <2>4 DEF FollowTab
<1>4. CASE FollowLink
  <2>1. walk' = NoWalk
    BY <1>4 DEF FollowLink
  <2>2. CASE Request("diff", Nothing, 0)
    BY <1>1, <2>1, <2>2, RequestKeeps
  <2>3. CASE Request("rawDiff", Nothing, 0)
    BY <1>1, <2>1, <2>3, RequestKeeps
  <2>4. CASE shown.kind \in {"home", "tree"} /\ shown.readme /\ Request("blob", shown.ref, 0)
    <3>1. shown.ref \in Refs /\ Here(shown.ref, shown.lost) /\ ReadmeHere(shown.ref, shown.lost)
      BY <2>4, Shown
    <3> QED
      BY <1>1, <2>1, <2>4, <3>1, RequestKeeps
  <2>5. CASE shown.kind = "blob" /\ Request("raw", shown.ref, 0)
    <3>1. shown.ref \in Refs /\ Here(shown.ref, shown.lost) /\ ReadmeHere(shown.ref, shown.lost)
      BY <2>5, Shown
    <3> QED
      BY <1>1, <2>1, <2>5, <3>1, RequestKeeps
  <2> QED
    BY <1>4, <2>2, <2>3, <2>4, <2>5 DEF FollowLink
<1>5. walk.ref # Nothing => shown.ref = walk.ref
  BY DEF WebInv, WalkOK
<1>6. CASE FollowOlder
  <2>1. shown.kind = "log" /\ Request("log", shown.ref, shown.page + 1) /\ UNCHANGED walk
    BY <1>6 DEF FollowOlder
  <2>2. shown.page \in Nat /\ shown.ref \in Refs /\ Here(shown.ref, shown.lost)
    BY <2>1, Shown DEF PageType
  <2>3. shown.page + 1 \in Nat /\ shown.page + 1 <= shown.page + 1
    BY <2>2
  <2> QED
    BY <1>1, <1>5, <2>1, <2>2, <2>3, RequestKeeps
<1>7. CASE FollowNewer
  <2>1. shown.kind = "log" /\ shown.page # 0 /\ Request("log", shown.ref, shown.page - 1) /\ UNCHANGED walk
    BY <1>7 DEF FollowNewer
  <2>2. shown.page \in Nat /\ shown.ref \in Refs /\ Here(shown.ref, shown.lost)
    BY <2>1, Shown DEF PageType
  <2>3. shown.page - 1 \in Nat /\ shown.page - 1 <= shown.page + 1
    BY <2>1, <2>2
  <2> QED
    BY <1>1, <1>5, <2>1, <2>2, <2>3, RequestKeeps
<1> QED
  BY <1>2, <1>3, <1>4, <1>6, <1>7

-----------------------------------------------------------------------------
(* the commit list *)

\* The places that a page lists.
Shows(log, page) == {j \in DOMAIN log : page * PageSize < j /\ j <= (page + 1) * PageSize}

\* A page ends where the next one begins.
LEMMA NextPage ==
  ASSUME WebConstantsOK, NEW page \in Nat
  PROVE  page * PageSize \in Nat /\ (page + 1) * PageSize = page * PageSize + PageSize
BY WebConstants

\* The pages come one after the other.
LEMMA LaterPage ==
  ASSUME WebConstantsOK, NEW page \in Nat, NEW later \in Nat, page <= later
  PROVE  page * PageSize <= later * PageSize
<1>1. PICK d \in Nat : later = page + d
  BY later - page \in Nat
<1>2. later * PageSize = page * PageSize + d * PageSize /\ d * PageSize \in Nat /\ page * PageSize \in Nat
  BY <1>1, WebConstants
<1> QED
  BY <1>2

\* A page lists at most PageSize commits, and exactly so many if the log goes on behind it.
LEMMA PageCount ==
  ASSUME WebConstantsOK, NEW log \in Seq(Commits), IsInjective(log), NEW page \in Nat
  PROVE  /\ Cardinality(Page(log, page)) \in 0..PageSize
         /\ \A i \in DOMAIN log : i > (page + 1) * PageSize => Cardinality(Page(log, page)) = PageSize
<1> DEFINE a == page * PageSize
           J == Shows(log, page)
           P == Page(log, page)
           f == [j \in J |-> log[j]]
<1>1. a \in Nat /\ (page + 1) * PageSize = a + PageSize /\ PageSize \in Nat /\ PageSize > 0
  BY NextPage, WebConstants
<1>2. J = {j \in DOMAIN log : a < j /\ j <= a + PageSize}
  BY <1>1 DEF Shows
<1>3. P = {log[j] : j \in J}
  BY DEF Page, Shows
<1> HIDE DEF a, J, P
<1>4. IsFiniteSet((a + 1)..(a + PageSize)) /\ Cardinality((a + 1)..(a + PageSize)) = PageSize
  <2>1. a + 1 \in Int /\ a + PageSize \in Int
    BY <1>1
  <2>2. /\ IsFiniteSet((a + 1)..(a + PageSize))
        /\ Cardinality((a + 1)..(a + PageSize))
             = IF a + 1 > a + PageSize THEN 0 ELSE (a + PageSize) - (a + 1) + 1
    BY <2>1, FS_Interval
  <2> QED
    BY <1>1, <2>2
<1>5. J \in SUBSET ((a + 1)..(a + PageSize))
  BY <1>1, <1>2
<1>6. IsFiniteSet(J) /\ Cardinality(J) <= PageSize /\ Cardinality(J) \in Nat
  <2>1. IsFiniteSet(J) /\ Cardinality(J) <= Cardinality((a + 1)..(a + PageSize))
    BY <1>4, <1>5, FS_Subset, Zenon
  <2>2. Cardinality(J) \in Nat
    BY <2>1, FS_CardinalityType, Zenon
  <2> QED
    BY <1>4, <2>1, <2>2, Zenon
<1>7. f \in Surjection(J, P)
  BY <1>3 DEF Surjection
<1>8. f \in Injection(J, P)
  <2>1. f \in [J -> P]
    BY <1>3
  <2>2. \A i, j \in J : f[i] = f[j] => i = j
    BY <1>2 DEF IsInjective
  <2> QED
    BY <2>1, <2>2 DEF Injection, IsInjective
<1> HIDE DEF f
<1>9. IsFiniteSet(P) /\ Cardinality(P) = Cardinality(J)
  BY <1>6, <1>7, <1>8, FS_Surjection
<1>10. ASSUME NEW i \in DOMAIN log, i > (page + 1) * PageSize PROVE Cardinality(P) = PageSize
  <2>1. (a + 1)..(a + PageSize) \subseteq J
    BY <1>1, <1>2, <1>10
  <2>2. J = (a + 1)..(a + PageSize)
    BY <1>5, <2>1
  <2> QED
    BY <1>4, <1>9, <2>2
<1>11. Cardinality(P) \in 0..PageSize
  BY <1>1, <1>6, <1>9
<1> QED
  BY <1>10, <1>11 DEF P

\* What a page does not list of the commits that begin at or behind it lies behind it.
LEMMA BehindPage ==
  ASSUME WebConstantsOK, NEW log \in Seq(Commits), NEW page \in Nat, NEW i \in DOMAIN log,
         i > page * PageSize, log[i] \notin Page(log, page)
  PROVE  i > (page + 1) * PageSize
<1>1. (page + 1) * PageSize \in Nat
  BY WebConstants
<1> QED
  BY <1>1 DEF Page

\* What is left of a request at commitLog.
LEMMA AtCommitLog ==
  ASSUME CallsOK(req), Head(req.calls) = "commitLog"
  PROVE  \/ req.kind = "home" /\ req.fresh /\ Len(req.calls) > 1 /\ Tail(req.calls) = <<"findReadme", "treeEntries">>
         \/ req.kind = "log" /\ Len(req.calls) = 1
<1>1. \/ req.kind = "home" /\ req.fresh /\ req.calls = <<"commitLog", "findReadme", "treeEntries">>
      \/ req.kind = "log" /\ req.calls = <<"commitLog">>
  BY DEF CallsOK, HomeCalls, LogCalls, TreeCalls
<1>2. CASE req.calls = <<"commitLog", "findReadme", "treeEntries">>
  <2>1. /\ Len(req.calls) > 1 /\ Tail(req.calls) = <<"findReadme", "treeEntries">>
        /\ req.calls # <<"commitLog">>
    BY <1>2
  <2> QED
    BY <1>1, <2>1
<1>3. CASE req.calls = <<"commitLog">>
  <2>1. Len(req.calls) = 1 /\ req.calls # <<"commitLog", "findReadme", "treeEntries">>
    BY <1>3
  <2> QED
    BY <1>1, <2>1
<1> QED
  BY <1>1, <1>2, <1>3

\* A page of the walk: what it has not seen yet lies behind the page, and there is nothing
\* behind a page that is not full.
LEMMA WalkGoesOn ==
  ASSUME WebConstantsOK, NEW log \in Seq(Commits), IsInjective(log), NEW page \in Nat, NEW left,
         \A c \in left : \E i \in DOMAIN log : log[i] = c /\ i > page * PageSize
  PROVE  LET items == Page(log, page)
         IN  /\ \A c \in left \ items : \E i \in DOMAIN log : log[i] = c /\ i > (page + 1) * PageSize
             /\ Cardinality(items) < PageSize => left \ items = {}
<1> DEFINE items == Page(log, page)
<1> HIDE DEF items
<1>1. ASSUME NEW c \in left \ items PROVE \E i \in DOMAIN log : log[i] = c /\ i > (page + 1) * PageSize
  <2>1. PICK i \in DOMAIN log : log[i] = c /\ i > page * PageSize
    OBVIOUS
  <2>2. i > (page + 1) * PageSize
    BY <2>1, BehindPage DEF items
  <2> QED
    BY <2>1, <2>2
<1>2. ASSUME Cardinality(items) < PageSize, NEW c \in left \ items PROVE FALSE
  <2>1. Cardinality(items) = PageSize
    BY <1>1, PageCount DEF items
  <2> QED
    BY <1>2, <2>1, WebConstants
<1> QED
  BY <1>1, <1>2 DEF items

\* The commit list keeps the invariant.
LEMMA CommitLogKeeps == ASSUME WebInv, CommitLog PROVE WebInv'
<1> DEFINE log == Lists(req.ref)
           items == Page(log, req.page)
           r == [req EXCEPT !.size = Cardinality(items)]
<1>1. Call("commitLog") /\ UNCHANGED <<branch, pushed>>
  BY DEF CommitLog, world
<1>2. /\ req \in RequestType /\ req.calls # <<>> /\ Head(req.calls) = "commitLog"
      /\ CallsOK(req) /\ SeenOK(req)
      /\ walk.ref # Nothing => Follows(req)
  BY <1>1, AtCall
<1>3. \/ req.kind = "home" /\ req.fresh /\ Len(req.calls) > 1 /\ Tail(req.calls) = <<"findReadme", "treeEntries">>
      \/ req.kind = "log" /\ Len(req.calls) = 1
  BY <1>2, AtCommitLog
<1>4. CASE ~Exists(req.ref) /\ Missing /\ UNCHANGED walk
  <2>1. \/ req.ref \in req.lost
        \/ ~req.fresh /\ req.ref \in shown.lost
        \/ req.fresh /\ (req.lost # {} \/ req.excused)
    <3>1. req.kind \in {"home", "log", "tree"}
      BY <1>3
    <3> QED
      BY <1>2, <1>4, <3>1, RefIsLost
  <2> QED
    BY <1>1, <1>4, <2>1, MissingKeeps
<1>5. CASE /\ Exists(req.ref) /\ Show(r)
           /\ walk' = CASE req.kind # "log" -> walk
                        [] req.kind = "log" /\ req.page = 0 /\ walk.ref = Nothing ->
                             [ref |-> req.ref, left |-> Range(log) \ items, back |-> FALSE]
                        [] OTHER -> [walk EXCEPT !.left = @ \ items]
  <2>1. req.ref \in Refs /\ log = branch[req.ref] /\ req.page \in Nat
    BY <1>2, <1>5, Existing DEF RequestType
  <2>2. log \in Seq(Commits) /\ IsInjective(log)
    BY <2>1 DEF WebInv, WebTypeOK
  <2>3. Cardinality(items) \in 0..PageSize
    BY <2>1, <2>2, PageCount, Given
  <2>4. /\ r \in RequestType /\ r.calls = req.calls /\ r.kind = req.kind /\ r.ref = req.ref
        /\ r.refs = req.refs /\ r.page = req.page /\ r.lost = req.lost /\ r.missing = req.missing
        /\ r.fresh = req.fresh /\ r.excused = req.excused /\ r.size = Cardinality(items)
    BY <1>2, <2>3 DEF RequestType
  <2>5. Show(r)
    BY <1>5
  <2>6. \A n \in r.refs : Here(n, r.lost)
    BY <1>2, <2>4 DEF SeenOK
  <2> HIDE DEF r, items, log
  <2>7. CASE req.kind = "home"
    <3>1. Later(r.kind, r.fresh, Tail(r.calls)) /\ Len(r.calls) > 1
      BY <1>3, <2>4, <2>7, Zenon DEF Later
    <3>2. Head(Tail(r.calls)) # "blobAt"
      <4>1. Head(<<"findReadme", "treeEntries">>) # "blobAt"
        OBVIOUS
      <4> QED
        BY <1>3, <2>4, <2>7, <4>1, Zenon
    <3>3. UNCHANGED walk
      BY <1>5, <2>7
    <3> QED
      BY <1>1, <1>2, <2>4, <2>5, <2>6, <2>7, <3>1, <3>2, <3>3, GoesOnWithRef
  <2>8. CASE req.kind = "log"
    <3>1. /\ PageOf(r).kind = "log" /\ PageOf(r).ref = req.ref /\ PageOf(r).page = req.page
          /\ PageOf(r).size = Cardinality(items)
      BY <2>4, <2>8 DEF PageOf
    <3>2. Len(r.calls) = 1 /\ r.kind \notin {"raw", "rawDiff"}
      BY <1>3, <2>4, <2>8
    <3>3. shown' = PageOf(r) /\ req' = NoRequest
      BY <2>5, <3>2, SMTT(30) DEF Show, PageOf
    <3>4. req'.calls = <<>>
      BY <3>3, EmptyTypes, Given
    <3>5. ShownOK(PageOf(r))
      BY <1>5, <2>4, <2>6, <2>8, SeenIsShown
    <3>6. walk' \in [ref : Refs \cup {Nothing}, left : SUBSET Commits, back : BOOLEAN] /\ WalkOK'
      <4>1. walk \in [ref : Refs \cup {Nothing}, left : SUBSET Commits, back : BOOLEAN]
        BY DEF WebInv, WebTypeOK
      <4>2. CASE req.page = 0 /\ walk.ref = Nothing
        <5>1. walk' = [ref |-> req.ref, left |-> Range(log) \ items, back |-> FALSE]
          BY <1>5, <2>8, <4>2
        <5>2. /\ \A c \in Range(log) : c \in Commits
              /\ \A c \in Range(log) : \E i \in DOMAIN log : log[i] = c /\ i > 0
          BY <2>2 DEF Range
        <5>3. req.page * PageSize = 0
          BY <4>2, WebConstants, Given
        <5>4. /\ \A c \in Range(log) \ items : \E i \in DOMAIN log : log[i] = c /\ i > (req.page + 1) * PageSize
              /\ Cardinality(items) < PageSize => Range(log) \ items = {}
          <6>1. \A c \in Range(log) : \E i \in DOMAIN log : log[i] = c /\ i > req.page * PageSize
            BY <5>2, <5>3
          <6>2. WebConstantsOK /\ req.page \in Nat
            BY <2>1, Given
          <6> QED
            BY <2>2, <6>1, <6>2, WalkGoesOn DEF items
        <5>5. walk'.ref = req.ref /\ walk'.left = Range(log) \ items
          BY <5>1
        <5>6. WalkOK'
          BY <1>1, <2>1, <3>1, <3>3, <3>4, <5>4, <5>5 DEF WalkOK
        <5> QED
          BY <2>1, <5>1, <5>2, <5>6
      <4>3. CASE ~(req.page = 0 /\ walk.ref = Nothing)
        <5>1. walk' = [walk EXCEPT !.left = @ \ items]
          BY <1>5, <2>8, <4>3
        <5>2. walk'.ref = walk.ref /\ walk'.left = walk.left \ items /\ walk'.back = walk.back
          BY <4>1, <5>1
        <5>3. walk' \in [ref : Refs \cup {Nothing}, left : SUBSET Commits, back : BOOLEAN]
          BY <4>1, <5>1
        <5>4. CASE walk.ref = Nothing
          BY <5>2, <5>3, <5>4 DEF WalkOK
        <5>5. CASE walk.ref # Nothing
          <6>1. /\ req.ref = walk.ref /\ req.page <= shown.page + 1 /\ shown.page \in Nat
                /\ ~walk.back => \A c \in walk.left : \E i \in DOMAIN log : log[i] = c /\ i > (shown.page + 1) * PageSize
            BY <1>2, <2>1, <5>5, Shown DEF Follows, WebInv, WalkOK, PageType
          <6>2. req.page * PageSize <= (shown.page + 1) * PageSize
            BY <2>1, <6>1, LaterPage, Given
          <6>3. ~walk.back => \A c \in walk.left : \E i \in DOMAIN log : log[i] = c /\ i > req.page * PageSize
            <7>1. req.page * PageSize \in Nat /\ (shown.page + 1) * PageSize \in Nat
              BY <2>1, <6>1, WebConstants, Given
            <7>2. \A i \in DOMAIN log : i > (shown.page + 1) * PageSize => i > req.page * PageSize
              BY <2>2, <6>2, <7>1
            <7> QED
              BY <6>1, <7>2
          <6>4. ~walk.back =>
                  /\ \A c \in walk.left \ items : \E i \in DOMAIN log : log[i] = c /\ i > (req.page + 1) * PageSize
                  /\ Cardinality(items) < PageSize => walk.left \ items = {}
            <7>1. WebConstantsOK /\ req.page \in Nat
              BY <2>1, Given
            <7> QED
              BY <2>2, <6>3, <7>1, WalkGoesOn DEF items
          <6>5. WalkOK'
            <7>1. /\ shown'.kind = "log" /\ shown'.ref = walk'.ref /\ shown'.page = req.page
                  /\ shown'.size = Cardinality(items)
              BY <3>1, <3>3, <5>2, <6>1
            <7>2. branch'[walk'.ref] = log
              BY <1>1, <2>1, <5>2, <6>1
            <7>3. ~walk'.back => \A c \in walk'.left : \E i \in DOMAIN branch'[walk'.ref] :
                                   branch'[walk'.ref][i] = c /\ i > (shown'.page + 1) * PageSize
              BY <5>2, <6>4, <7>1, <7>2
            <7>4. ~walk'.back /\ shown'.size < PageSize => walk'.left = {}
              BY <5>2, <6>4, <7>1
            <7> QED
              BY <3>4, <7>1, <7>3, <7>4 DEF WalkOK
          <6> QED
            BY <5>3, <6>5
        <5> QED
          BY <5>4, <5>5
      <4> QED
        BY <4>2, <4>3
    <3> QED
      BY <1>1, <2>4, <2>5, <3>2, <3>5, <3>6, ShowEnds
  <2> QED
    BY <1>3, <2>7, <2>8
<1> QED
  BY <1>4, <1>5 DEF CommitLog, Exists

-----------------------------------------------------------------------------
(* the pushes *)

\* A push changes of the page and of the request at most what they have lost.
OnlyLoses ==
  /\ shown' \in PageType /\ req' \in RequestType
  /\ shown'.kind = shown.kind /\ shown'.ref = shown.ref /\ shown'.refs = shown.refs
  /\ shown'.page = shown.page /\ shown'.size = shown.size /\ shown'.readme = shown.readme
  /\ req'.kind = req.kind /\ req'.ref = req.ref /\ req'.refs = req.refs /\ req'.page = req.page
  /\ req'.calls = req.calls /\ req'.missing = req.missing /\ req'.fresh = req.fresh
  /\ req'.excused = req.excused
  /\ shown.lost \subseteq shown'.lost /\ req.lost \subseteq req'.lost
  /\ req.calls = <<>> => req' = req

\* Lose notes the name wherever it may be missed.
Noted(n) ==
  /\ n \in Linked(shown) => n \in shown'.lost
  /\ req.calls # <<>> /\ req.kind \notin {"diff", "rawDiff"} => n \in req'.lost

\* It does nothing else.
LEMMA LoseNotes ==
  ASSUME WebInv, NEW n \in Refs, Lose(n)
  PROVE  OnlyLoses /\ Noted(n)
<1>1. shown \in PageType /\ req \in RequestType
  BY DEF WebInv, WebTypeOK
<1>2. /\ shown' \in PageType
      /\ shown'.kind = shown.kind /\ shown'.ref = shown.ref /\ shown'.refs = shown.refs
      /\ shown'.page = shown.page /\ shown'.size = shown.size /\ shown'.readme = shown.readme
      /\ shown.lost \subseteq shown'.lost
      /\ n \in Linked(shown) => n \in shown'.lost
  <2>1. CASE n \in Linked(shown)
    <3>1. shown' = [shown EXCEPT !.lost = @ \cup {n}]
      BY <2>1 DEF Lose
    <3> QED
      BY <1>1, <3>1 DEF PageType
  <2>2. CASE n \notin Linked(shown)
    <3>1. shown' = shown
      BY <2>2 DEF Lose
    <3> QED
      BY <1>1, <2>2, <3>1
  <2> QED
    BY <2>1, <2>2
<1>3. /\ req' \in RequestType
      /\ req'.kind = req.kind /\ req'.ref = req.ref /\ req'.refs = req.refs /\ req'.page = req.page
      /\ req'.calls = req.calls /\ req'.missing = req.missing /\ req'.fresh = req.fresh
      /\ req'.excused = req.excused /\ req.lost \subseteq req'.lost
      /\ req.calls = <<>> => req' = req
      /\ req.calls # <<>> /\ req.kind \notin {"diff", "rawDiff"} => n \in req'.lost
  <2>1. CASE req.calls # <<>> /\ req.kind \notin {"diff", "rawDiff"}
    <3>1. req' = [req EXCEPT !.lost = @ \cup {n}]
      BY <2>1 DEF Lose
    <3> QED
      BY <1>1, <2>1, <3>1 DEF RequestType
  <2>2. CASE ~(req.calls # <<>> /\ req.kind \notin {"diff", "rawDiff"})
    <3>1. req' = req
      BY <2>2 DEF Lose
    <3> QED
      BY <1>1, <2>2, <3>1
  <2> QED
    BY <2>1, <2>2
<1> QED
  BY <1>2, <1>3 DEF OnlyLoses, Noted

\* The log of a branch that has a readme.
Readme(log) == log # <<>> /\ Head(log).readme

\* A push to n: another name lists what it did; n is noted, or keeps what it had.
Pushed(n) ==
  /\ OnlyLoses
  /\ \A m \in Refs \ {n} : branch'[m] = branch[m]
  /\ \/ Noted(n)
     \/ /\ UNCHANGED <<shown, req>>
        /\ branch'[n] # <<>>
        /\ Readme(branch[n]) => Readme(branch'[n])

\* What was said of a name is still true.
LEMMA StillHere ==
  ASSUME NEW n \in Refs, Pushed(n), NEW m \in Refs, NEW lost, NEW later,
         lost \subseteq later, Noted(n) => m # n \/ m \in later
  PROVE  /\ branch[m] # <<>> \/ m \in lost => branch'[m] # <<>> \/ m \in later
         /\ Readme(branch[m]) \/ m \in lost => Readme(branch'[m]) \/ m \in later
<1>1. CASE m = n
  BY <1>1 DEF Pushed
<1>2. CASE m # n
  BY <1>2 DEF Pushed
<1> QED
  BY <1>1, <1>2

\* A name that is there, in terms of what it lists.
LEMMA HereNow ==
  ASSUME NEW m \in Refs, NEW lost
  PROVE  /\ Here(m, lost) <=> branch[m] # <<>> \/ m \in lost
         /\ ReadmeHere(m, lost) <=> Readme(branch[m]) \/ m \in lost
BY DEF Here, ReadmeHere, HasReadme, Readme, Exists, Lists

\* The page that is shown.
LEMMA PushedPage ==
  ASSUME WebInv, NEW n \in Refs, Pushed(n)
  PROVE  ShownOK(shown)'
<1>1. /\ shown'.kind = shown.kind /\ shown'.ref = shown.ref /\ shown'.refs = shown.refs
      /\ shown'.readme = shown.readme /\ shown.lost \subseteq shown'.lost
  BY DEF Pushed, OnlyLoses
<1>2. \A m \in Linked(shown) : Noted(n) => m # n \/ m \in shown'.lost
  BY DEF Noted
<1>3. /\ shown.kind \in {"home", "log", "tree", "blob"} => shown.ref \in Refs /\ Here(shown.ref, shown.lost)
      /\ \A m \in shown.refs : m \in Refs /\ Here(m, shown.lost)
      /\ shown.kind = "blob" \/ (shown.kind \in {"home", "tree"} /\ shown.readme) => ReadmeHere(shown.ref, shown.lost)
  BY Shown
<1>4. shown.kind \in {"home", "log", "tree", "blob"} => branch'[shown.ref] # <<>> \/ shown.ref \in shown'.lost
  BY <1>1, <1>2, <1>3, HereNow, StillHere, SMTT(30) DEF Linked
<1>5. \A m \in shown.refs : branch'[m] # <<>> \/ m \in shown'.lost
  BY <1>1, <1>2, <1>3, HereNow, StillHere, SMTT(30) DEF Linked
<1>6. shown.kind = "blob" \/ (shown.kind \in {"home", "tree"} /\ shown.readme) => Readme(branch'[shown.ref]) \/ shown.ref \in shown'.lost
  BY <1>1, <1>2, <1>3, HereNow, StillHere, SMTT(30) DEF Linked
<1> QED
  BY <1>1, <1>3, <1>4, <1>5, <1>6 DEF ShownOK, Here, ReadmeHere, HasReadme, Readme, Exists, Lists

\* The request that goes on meanwhile.
LEMMA PushedRequest ==
  ASSUME WebInv, NEW n \in Refs, Pushed(n), req.calls # <<>>
  PROVE  RequestOK(req, shown)'
<1>1. /\ req'.kind = req.kind /\ req'.ref = req.ref /\ req'.refs = req.refs /\ req'.calls = req.calls
      /\ req'.missing = req.missing /\ req'.fresh = req.fresh /\ req'.excused = req.excused
      /\ req.lost \subseteq req'.lost /\ shown.lost \subseteq shown'.lost
  BY DEF Pushed, OnlyLoses
<1>2. CallsOK(req) /\ ~req.missing /\ NamedOK(req, shown) /\ ChosenOK(req) /\ SeenOK(req)
  BY AtCall DEF Call
<1>3. Noted(n) => req.kind \in {"diff", "rawDiff"} \/ n \in req'.lost
  BY DEF Noted
<1>4. CallsOK(req)'
  BY <1>1, <1>2 DEF CallsOK, HomeCalls, LogCalls, TreeCalls
<1>5. NamedOK(req, shown)'
  <2>1. CASE ~req.fresh
    <3>1. /\ req.ref \in Refs /\ Here(req.ref, req.lost \cup shown.lost)
          /\ req.kind \in {"blob", "raw"} => ReadmeHere(req.ref, req.lost \cup shown.lost)
      BY <1>2, <2>1 DEF NamedOK
    <3>2. req.kind \notin {"diff", "rawDiff"}
      BY <1>2, <2>1 DEF CallsOK
    <3>3. Noted(n) => req.ref # n \/ req.ref \in req'.lost \cup shown'.lost
      BY <1>3, <3>2
    <3>4. /\ branch'[req.ref] # <<>> \/ req.ref \in req'.lost \cup shown'.lost
          /\ req.kind \in {"blob", "raw"} => Readme(branch'[req.ref]) \/ req.ref \in req'.lost \cup shown'.lost
      BY <1>1, <3>1, <3>3, HereNow, StillHere, SMTT(30)
    <3> QED
      BY <1>1, <3>1, <3>4 DEF NamedOK, Here, ReadmeHere, HasReadme, Readme, Exists, Lists
  <2>2. CASE req.fresh
    BY <1>1, <2>2 DEF NamedOK
  <2> QED
    BY <2>1, <2>2
<1>6. ChosenOK(req)'
  <2>1. CASE Noted(n)
    BY <1>1, <1>2, <1>3, <2>1 DEF ChosenOK
  <2>2. CASE ~Noted(n)
    <3>1. req' = req /\ \A m \in Refs : branch[m] # <<>> => branch'[m] # <<>>
      BY <2>2 DEF Pushed
    <3>2. ~Unborn => ~Unborn'
      BY <3>1 DEF Unborn, Exists, Lists
    <3>3. Exists(req.ref) => Exists(req.ref)'
      BY <3>1 DEF Exists, Lists
    <3> QED
      BY <1>2, <3>1, <3>2, <3>3 DEF ChosenOK
  <2> QED
    BY <2>1, <2>2
<1>7. SeenOK(req)'
  <2>1. req.refs \in SUBSET Refs
    BY DEF WebInv, WebTypeOK, RequestType
  <2>2. \A m \in req.refs : branch'[m] # <<>> \/ m \in req'.lost
    <3> TAKE m \in req.refs
    <3>1. m \in Refs /\ Here(m, req.lost) /\ req.kind \notin {"diff", "rawDiff"}
      BY <1>2, <2>1 DEF SeenOK
    <3>2. Noted(n) => m # n \/ m \in req'.lost
      BY <1>3, <3>1
    <3> QED
      BY <1>1, <3>1, <3>2, HereNow, StillHere
  <2>3. req.kind = "home" /\ Head(req.calls) = "blobAt" => ReadmeHere(req.ref, req.lost)'
    <3>1. SUFFICES ASSUME req.kind = "home", Head(req.calls) = "blobAt" PROVE ReadmeHere(req.ref, req.lost)'
      OBVIOUS
    <3>2. ReadmeHere(req.ref, req.lost)
      BY <1>2, <3>1 DEF SeenOK
    <3>3. CASE req.ref \in Refs
      <4>1. Noted(n) => req.ref # n \/ req.ref \in req'.lost
        BY <1>3, <3>1
      <4>2. Readme(branch'[req.ref]) \/ req.ref \in req'.lost
        BY <1>1, <3>2, <3>3, <4>1, HereNow, StillHere
      <4> QED
        BY <1>1, <3>3, <4>2 DEF ReadmeHere, HasReadme, Readme, Exists, Lists
    <3>4. CASE req.ref \notin Refs
      BY <1>1, <3>2, <3>4 DEF ReadmeHere, HasReadme, Exists, Lists
    <3> QED
      BY <3>3, <3>4
  <2>4. req.kind \in {"diff", "rawDiff"} => req.refs = {}
    BY <1>2 DEF SeenOK
  <2> QED
    BY <1>1, <2>1, <2>2, <2>3, <2>4 DEF SeenOK, Here, Exists, Lists
<1> QED
  BY <1>1, <1>2, <1>4, <1>5, <1>6, <1>7 DEF RequestOK

\* The answer that is already given.
LEMMA PushedMissing ==
  ASSUME WebInv, NEW n \in Refs, Pushed(n)
  PROVE  MissingOnlyIfLost'
<1>1. OnlyLoses
  BY DEF Pushed
<1>2. CASE req.calls = <<>>
  <2>1. req' = req /\ shown.lost \subseteq shown'.lost
    BY <1>1, <1>2 DEF OnlyLoses
  <2> QED
    BY <2>1 DEF WebInv, MissingOnlyIfLost
<1>3. CASE req.calls # <<>>
  <2>1. ~req'.missing
    BY <1>1, <1>3 DEF OnlyLoses, WebInv, RequestOK
  <2> QED
    BY <2>1 DEF MissingOnlyIfLost
<1> QED
  BY <1>2, <1>3

\* What a push leaves of the invariant, given the new log of its branch.
LEMMA PushKeeps ==
  ASSUME WebInv, NEW n \in Refs, Pushed(n), NEW log \in Seq(Commits), IsInjective(log),
         branch' = [branch EXCEPT ![n] = log], pushed' \in 0..MaxCommits, pushed <= pushed',
         \A i \in DOMAIN log : log[i].id <= pushed',
         walk' = [walk EXCEPT !.back = @ \/ walk.ref = n]
           \/ (UNCHANGED walk /\ \A i \in DOMAIN branch[n] : \E j \in DOMAIN log : log[j] = branch[n][i] /\ j > i)
  PROVE  WebInv'
<1>1. /\ branch \in [Refs -> Seq(Commits)] /\ \A m \in Refs : IsInjective(branch[m])
      /\ pushed \in 0..MaxCommits
      /\ walk \in [ref : Refs \cup {Nothing}, left : SUBSET Commits, back : BOOLEAN]
  BY DEF WebInv, WebTypeOK
<1>2. branch'[n] = log /\ \A m \in Refs \ {n} : branch'[m] = branch[m]
  BY <1>1
<1>3. WebTypeOK'
  <2>1. branch' \in [Refs -> Seq(Commits)]
    BY <1>1
  <2>2. \A m \in Refs : IsInjective(branch'[m])
    BY <1>1, <1>2
  <2>3. (\A m \in Refs : IsInjective(branch[m]))'
    BY <2>2 DEF IsInjective
  <2>4. walk' \in [ref : Refs \cup {Nothing}, left : SUBSET Commits, back : BOOLEAN]
    BY <1>1
  <2> QED
    BY <2>1, <2>3, <2>4 DEF WebTypeOK, Pushed, OnlyLoses
<1>4. Numbered'
  <2>1. \A m \in Refs : \A i \in DOMAIN branch'[m] : branch'[m][i].id <= pushed'
    <3> SUFFICES ASSUME NEW m \in Refs, NEW i \in DOMAIN branch'[m] PROVE branch'[m][i].id <= pushed'
      OBVIOUS
    <3>1. CASE m = n
      BY <1>2, <3>1
    <3>2. CASE m # n
      <4>1. branch'[m] = branch[m] /\ branch[m][i].id <= pushed
        BY <1>2, <3>2 DEF WebInv, Numbered
      <4>2. branch[m][i] \in Commits
        BY <1>1, <4>1
      <4>3. branch[m][i].id \in Nat
        BY <4>2, WebConstants, Given DEF Commits
      <4> QED
        BY <1>1, <4>1, <4>3
    <3> QED
      BY <3>1, <3>2
  <2> QED
    BY <2>1 DEF Numbered
<1>5. WalkOK'
  <2>1. /\ shown'.kind = shown.kind /\ shown'.ref = shown.ref /\ shown'.page = shown.page
        /\ shown'.size = shown.size
        /\ req'.kind = req.kind /\ req'.ref = req.ref /\ req'.page = req.page
        /\ req'.calls = req.calls /\ req'.fresh = req.fresh
    BY DEF Pushed, OnlyLoses
  <2>2. walk'.ref = walk.ref /\ walk'.left = walk.left /\ (walk.back => walk'.back)
    BY <1>1
  <2>3. walk'.ref # Nothing /\ ~walk'.back =>
          \A c \in walk.left : \E i \in DOMAIN branch'[walk.ref] :
             branch'[walk.ref][i] = c /\ i > (shown.page + 1) * PageSize
    <3> SUFFICES ASSUME walk'.ref # Nothing, ~walk'.back, NEW c \in walk.left
                 PROVE  \E i \in DOMAIN branch'[walk.ref] :
                          branch'[walk.ref][i] = c /\ i > (shown.page + 1) * PageSize
      OBVIOUS
    <3>1. PICK i \in DOMAIN branch[walk.ref] : branch[walk.ref][i] = c /\ i > (shown.page + 1) * PageSize
      BY <2>2 DEF WebInv, WalkOK
    <3>2. walk.ref \in Refs
      BY <1>1, <2>2
    <3>3. CASE walk.ref # n
      BY <1>2, <3>1, <3>2, <3>3
    <3>4. CASE walk.ref = n
      <4>1. walk' # [walk EXCEPT !.back = @ \/ walk.ref = n]
        BY <1>1, <3>4
      <4>2. PICK j \in DOMAIN log : log[j] = branch[n][i] /\ j > i
        BY <3>1, <3>4, <4>1
      <4>3. (shown.page + 1) * PageSize \in Nat
        BY Shown, WebConstants, Given DEF PageType
      <4>4. i \in Nat /\ j \in Nat
        BY <1>1, <3>2
      <4>5. j > (shown.page + 1) * PageSize
        BY <3>1, <4>2, <4>3, <4>4
      <4> QED
        BY <1>2, <3>1, <3>4, <4>2, <4>5
    <3> QED
      BY <3>3, <3>4
  <2> QED
    BY <2>1, <2>2, <2>3 DEF WebInv, WalkOK
<1>6. ShownOK(shown)' /\ MissingOnlyIfLost'
  BY PushedPage, PushedMissing
<1>7. req'.calls # <<>> => RequestOK(req, shown)'
  BY PushedRequest DEF Pushed, OnlyLoses
<1> QED
  BY <1>3, <1>4, <1>5, <1>6, <1>7 DEF WebInv

\* Moving a branch back keeps the invariant.
LEMMA MoveBackKeeps ==
  ASSUME WebInv, NEW n \in Refs, MoveBack(n)
  PROVE  WebInv'
<1>1. /\ branch \in [Refs -> Seq(Commits)] /\ IsInjective(branch[n]) /\ pushed \in 0..MaxCommits
  BY DEF WebInv, WebTypeOK
<1>2. /\ branch[n] # <<>> /\ branch' = [branch EXCEPT ![n] = Tail(branch[n])]
      /\ Lose(n) /\ pushed' = pushed /\ walk' = [walk EXCEPT !.back = @ \/ walk.ref = n]
  BY DEF MoveBack
<1>3. Tail(branch[n]) \in Seq(Commits)
  BY <1>1, <1>2
<1>4. \A i \in DOMAIN Tail(branch[n]) : i + 1 \in DOMAIN branch[n] /\ Tail(branch[n])[i] = branch[n][i + 1] /\ i \in Nat
  BY <1>1, <1>2
<1>5. IsInjective(Tail(branch[n]))
  BY <1>1, <1>4 DEF IsInjective
<1>6. \A i \in DOMAIN Tail(branch[n]) : Tail(branch[n])[i].id <= pushed
  BY <1>4 DEF WebInv, Numbered
<1>7. Pushed(n)
  BY <1>1, <1>2, LoseNotes DEF Pushed
<1>8. pushed <= pushed'
  BY <1>1, <1>2
<1> QED
  BY <1>1, <1>2, <1>3, <1>5, <1>6, <1>7, <1>8, PushKeeps

\* A log t with a commit more than s: the ones from its place on move down by one.
Inserted(t, s, i, c) ==
  /\ Len(t) = Len(s) + 1
  /\ \A j \in 1..(Len(s) + 1) : t[j] = IF j < i THEN s[j] ELSE IF j = i THEN c ELSE s[j - 1]

\* This is what ListedIn makes.
LEMMA ListedLog ==
  ASSUME NEW S, NEW s \in Seq(S), NEW c \in S, NEW i \in 1..(Len(s) + 1)
  PROVE  ListedIn(s, i, c) \in Seq(S) /\ Inserted(ListedIn(s, i, c), s, i, c)
<1>1. i \in Nat /\ Len(s) \in Nat /\ i >= 1 /\ i <= Len(s) + 1
  OBVIOUS
<1>2. PICK a : a = SubSeq(s, 1, i - 1)
  OBVIOUS
<1>3. a \in Seq(S) /\ Len(a) = i - 1 /\ \A j \in 1..(i - 1) : a[j] = s[j]
  BY <1>1, <1>2
<1>4. PICK b : b = SubSeq(s, i, Len(s))
  OBVIOUS
<1>5. b \in Seq(S) /\ Len(b) = Len(s) - i + 1 /\ \A j \in 1..(Len(s) - i + 1) : b[j] = s[i + j - 1]
  BY <1>1, <1>4
<1>6. PICK d : d = a \o <<c>>
  OBVIOUS
<1>7. /\ d \in Seq(S) /\ Len(d) = i /\ d[i] = c
      /\ \A j \in 1..(i - 1) : d[j] = s[j]
  BY <1>1, <1>3, <1>6
<1>8. PICK t : t = d \o b
  OBVIOUS
<1>9. /\ t \in Seq(S) /\ Len(t) = Len(s) + 1
      /\ \A j \in 1..i : t[j] = d[j]
      /\ \A j \in (i + 1)..(Len(s) + 1) : t[j] = b[j - i]
  BY <1>1, <1>5, <1>7, <1>8
<1>10. ASSUME NEW j \in 1..(Len(s) + 1) PROVE t[j] = IF j < i THEN s[j] ELSE IF j = i THEN c ELSE s[j - 1]
  <2>1. CASE j < i
    BY <1>1, <1>7, <1>9, <2>1
  <2>2. CASE j = i
    BY <1>1, <1>7, <1>9, <2>2
  <2>3. CASE j > i
    <3>1. j - i \in 1..(Len(s) - i + 1) /\ i + (j - i) - 1 = j - 1 /\ j \in (i + 1)..(Len(s) + 1)
      BY <1>1, <2>3
    <3>2. t[j] = b[j - i] /\ b[j - i] = s[i + (j - i) - 1]
      BY <1>5, <1>9, <3>1
    <3> QED
      BY <1>1, <2>3, <3>1, <3>2
  <2> QED
    BY <1>1, <2>1, <2>2, <2>3
<1>11. ListedIn(s, i, c) = t
  BY <1>2, <1>4, <1>6, <1>8 DEF ListedIn
<1>12. Inserted(t, s, i, c)
  BY <1>9, <1>10 DEF Inserted
<1> QED
  BY <1>9, <1>11, <1>12

\* A commit with a new number keeps a log without repetition, and every old one is in it.
Grows(new, old, id) ==
  /\ new \in Seq(Commits) /\ IsInjective(new)
  /\ \A i \in DOMAIN new : new[i].id <= id
  /\ \A i \in DOMAIN old : \E j \in DOMAIN new : new[j] = old[i] /\ j >= i

\* A commit that a merge brings.
LEMMA MergeGrows ==
  ASSUME WebConstantsOK, NEW s \in Seq(Commits), IsInjective(s), NEW k \in Nat, \A i \in DOMAIN s : s[i].id <= k,
         NEW c \in Commits, c.id > k, NEW i \in 1..(Len(s) + 1)
  PROVE  Grows(ListedIn(s, i, c), s, c.id)
         /\ \A j \in DOMAIN ListedIn(s, i, c) : ListedIn(s, i, c)[j] = c \/ ListedIn(s, i, c)[j].id <= k
<1>1. PICK t : t = ListedIn(s, i, c)
  OBVIOUS
<1>2. /\ t \in Seq(Commits) /\ Len(t) = Len(s) + 1
      /\ \A j \in 1..(Len(s) + 1) : t[j] = IF j < i THEN s[j] ELSE IF j = i THEN c ELSE s[j - 1]
  <2>1. t \in Seq(Commits) /\ Inserted(t, s, i, c)
    BY <1>1, ListedLog
  <2> QED
    BY <2>1 DEF Inserted
<1>3. DOMAIN t = 1..(Len(s) + 1) /\ DOMAIN s = 1..Len(s) /\ Len(s) \in Nat /\ i \in Nat
  BY <1>2
<1>4. \A j \in DOMAIN s : s[j] \in Commits /\ s[j].id \in Nat /\ s[j] # c
  <2>1. \A j \in DOMAIN s : s[j] \in Commits
    OBVIOUS
  <2>2. \A e \in Commits : e.id \in Nat
    BY WebConstants DEF Commits
  <2> QED
    BY <2>1, <2>2
<1>5. c.id \in Nat
  BY WebConstants DEF Commits
<1> DEFINE From(j) == IF j < i THEN j ELSE j - 1
<1>6. \A j \in DOMAIN t : j # i => From(j) \in DOMAIN s /\ t[j] = s[From(j)]
  BY <1>2, <1>3
<1>7. t[i] = c /\ i \in DOMAIN t
  BY <1>2, <1>3
<1>8. \A j, l \in DOMAIN t : j # i /\ l # i /\ From(j) = From(l) => j = l
  BY <1>3
<1> HIDE DEF From
<1>9. \A j \in DOMAIN t : t[j] = c \/ t[j].id <= k
  BY <1>6, <1>7
<1>10. \A j \in DOMAIN t : t[j].id <= c.id
  BY <1>4, <1>5, <1>6, <1>7
<1>11. IsInjective(t)
  <2> SUFFICES ASSUME NEW j \in DOMAIN t, NEW l \in DOMAIN t, t[j] = t[l] PROVE j = l
    BY DEF IsInjective
  <2>1. CASE j = i \/ l = i
    BY <1>4, <1>6, <1>7, <2>1
  <2>2. CASE j # i /\ l # i
    BY <1>6, <1>8, <2>2 DEF IsInjective
  <2> QED
    BY <2>1, <2>2
<1>12. \A j \in DOMAIN s : \E l \in DOMAIN t : t[l] = s[j] /\ l >= j
  <2> SUFFICES ASSUME NEW j \in DOMAIN s PROVE \E l \in DOMAIN t : t[l] = s[j] /\ l >= j
    OBVIOUS
  <2>1. CASE j < i
    BY <1>2, <1>3, <2>1
  <2>2. CASE ~(j < i)
    <3>1. j + 1 \in DOMAIN t /\ t[j + 1] = s[(j + 1) - 1] /\ (j + 1) - 1 = j
      BY <1>2, <1>3, <2>2
    <3> QED
      BY <1>3, <3>1
  <2> QED
    BY <2>1, <2>2
<1> QED
  BY <1>1, <1>2, <1>9, <1>10, <1>11, <1>12 DEF Grows

OnTop(t, s, tip, id) ==
  /\ t \in Seq(Commits) /\ IsInjective(t) /\ t # <<>> /\ Head(t) = tip
  /\ \A i \in DOMAIN t : t[i].id <= id
  /\ \A i \in DOMAIN s : i + 1 \in DOMAIN t /\ t[i + 1] = s[i]

\* A new tip moves all of the log down by one.
LEMMA TipGrows ==
  ASSUME NEW s \in Seq(Commits), IsInjective(s), NEW tip \in Commits, NEW id \in Nat,
         tip.id <= id, \A i \in DOMAIN s : s[i].id <= id /\ s[i] # tip
  PROVE  OnTop(<<tip>> \o s, s, tip, id)
<1>1. PICK t : t = <<tip>> \o s
  OBVIOUS
<1>2. /\ t \in Seq(Commits) /\ Len(t) = Len(s) + 1 /\ t[1] = tip
      /\ \A i \in 2..(Len(s) + 1) : t[i] = s[i - 1]
  BY <1>1, InFront
<1>3. DOMAIN t = 1..(Len(s) + 1) /\ DOMAIN s = 1..Len(s) /\ Len(s) \in Nat /\ t # <<>> /\ Head(t) = tip
  BY <1>2
<1>4. \A i \in DOMAIN t : i = 1 \/ (i - 1 \in DOMAIN s /\ t[i] = s[i - 1])
  BY <1>2, <1>3
<1>5. \A i \in DOMAIN s : i + 1 \in DOMAIN t /\ t[i + 1] = s[i]
  <2> SUFFICES ASSUME NEW i \in DOMAIN s PROVE i + 1 \in DOMAIN t /\ t[i + 1] = s[i]
    OBVIOUS
  <2>1. i + 1 \in 2..(Len(s) + 1) /\ (i + 1) - 1 = i
    BY <1>3
  <2> QED
    BY <1>2, <1>3, <2>1
<1>6. \A i \in DOMAIN t : t[i].id <= id
  BY <1>2, <1>4
<1>7. IsInjective(t)
  <2> SUFFICES ASSUME NEW i \in DOMAIN t, NEW j \in DOMAIN t, t[i] = t[j] PROVE i = j
    BY DEF IsInjective
  <2>1. CASE i = 1 \/ j = 1
    BY <1>2, <1>4, <2>1
  <2>2. CASE i # 1 /\ j # 1
    <3>1. i - 1 \in DOMAIN s /\ j - 1 \in DOMAIN s /\ s[i - 1] = s[j - 1]
      BY <1>4, <2>2
    <3>2. i - 1 = j - 1
      BY <3>1 DEF IsInjective
    <3> QED
      BY <1>3, <3>2
  <2> QED
    BY <2>1, <2>2
<1> QED
  BY <1>1, <1>2, <1>3, <1>5, <1>6, <1>7 DEF OnTop

\* A push keeps the invariant.
LEMMA PushesKeep ==
  ASSUME WebInv, NEW n \in Refs, Push(n)
  PROVE  WebInv'
<1>1. /\ branch \in [Refs -> Seq(Commits)] /\ IsInjective(branch[n]) /\ pushed \in 0..MaxCommits
      /\ \A i \in DOMAIN branch[n] : branch[n][i].id <= pushed
  BY DEF WebInv, WebTypeOK, Numbered
<1>2. PICK readme \in BOOLEAN, merged \in BOOLEAN, i \in 1..(Len(branch[n]) + 1) :
        LET tip == [id |-> pushed + 1, readme |-> readme]
            old == [id |-> pushed + 2, readme |-> FALSE]
            log == IF merged THEN ListedIn(branch[n], i, old) ELSE branch[n]
        IN  /\ i = 1 \/ merged
            /\ merged => branch[n] # <<>>
            /\ pushed' = pushed + (IF merged THEN 2 ELSE 1)
            /\ pushed' <= MaxCommits
            /\ branch' = [branch EXCEPT ![n] = <<tip>> \o log]
            /\ IF branch[n] # <<>> /\ Head(branch[n]).readme /\ ~readme
               THEN Lose(n) ELSE UNCHANGED <<shown, req>>
            /\ UNCHANGED walk
  BY DEF Push
<1> DEFINE tip == [id |-> pushed + 1, readme |-> readme]
           old == [id |-> pushed + 2, readme |-> FALSE]
           log == IF merged THEN ListedIn(branch[n], i, old) ELSE branch[n]
<1>3. /\ pushed' = pushed + (IF merged THEN 2 ELSE 1) /\ pushed' <= MaxCommits
      /\ branch' = [branch EXCEPT ![n] = <<tip>> \o log] /\ UNCHANGED walk
      /\ \/ Lose(n)
         \/ UNCHANGED <<shown, req>> /\ (branch[n] # <<>> /\ Head(branch[n]).readme => readme)
  BY <1>2
<1>4. /\ pushed \in Nat /\ pushed' \in 0..MaxCommits /\ pushed' \in Nat /\ pushed + 1 <= pushed' /\ pushed <= pushed'
      /\ merged => pushed' = pushed + 2
  <2>1. MaxCommits \in Nat /\ pushed \in 0..MaxCommits
    BY <1>1, WebConstants, Given
  <2>2. /\ pushed' = pushed + (IF merged THEN 2 ELSE 1)
        /\ pushed' <= MaxCommits
    BY <1>3
  <2>3. pushed' = pushed + 1 \/ pushed' = pushed + 2
    BY <2>2
  <2> QED
    BY <2>1, <2>2, <2>3
<1>5. tip \in Commits /\ tip.id = pushed + 1 /\ tip.readme = readme
  BY <1>3, <1>4, WebConstants, Given DEF Commits
<1>6. branch[n] \in Seq(Commits)
  BY <1>1
<1>7. /\ log \in Seq(Commits) /\ IsInjective(log)
      /\ \A j \in DOMAIN log : log[j].id <= pushed' /\ log[j] # tip
      /\ \A j \in DOMAIN branch[n] : \E k \in DOMAIN log : log[k] = branch[n][j] /\ k >= j
  <2>1. \A e \in Commits : e.id \in Nat
    BY WebConstants, Given DEF Commits
  <2>2. CASE merged
    <3>1. old \in Commits /\ old.id = pushed + 2 /\ old.id > pushed
      BY <1>3, <1>4, <2>2, WebConstants, Given DEF Commits
    <3>2. log = ListedIn(branch[n], i, old)
      BY <2>2
    <3> HIDE DEF tip, old, log
    <3>3. Grows(log, branch[n], old.id) /\ \A j \in DOMAIN log : log[j] = old \/ log[j].id <= pushed
      <4>1. WebConstantsOK /\ pushed \in Nat /\ i \in 1..(Len(branch[n]) + 1)
        BY <1>4, Given
      <4>2. /\ branch[n] \in Seq(Commits) /\ IsInjective(branch[n])
            /\ \A j \in DOMAIN branch[n] : branch[n][j].id <= pushed
        BY <1>1, <1>6
      <4> QED
        BY <3>1, <3>2, <4>1, <4>2, MergeGrows
    <3>4. \A j \in DOMAIN log : log[j] \in Commits
      BY <3>3 DEF Grows
    <3>5. \A j \in DOMAIN log : log[j] # tip
      BY <1>4, <1>5, <3>1, <3>3
    <3> QED
      BY <1>4, <2>2, <3>1, <3>3, <3>5 DEF Grows
  <2>3. CASE ~merged
    <3>1. log = branch[n]
      BY <2>3
    <3> HIDE DEF tip, old, log
    <3>2. \A j \in DOMAIN log : log[j] \in Commits /\ log[j].id <= pushed /\ log[j].id \in Nat
      BY <1>1, <1>6, <2>1, <3>1
    <3>3. \A j \in DOMAIN log : log[j].id <= pushed' /\ log[j] # tip
      BY <1>4, <1>5, <3>2
    <3>4. \A j \in DOMAIN log : j >= j
      BY <1>6, <3>1
    <3> QED
      BY <1>1, <1>6, <3>1, <3>3, <3>4
  <2> QED
    BY <2>2, <2>3
<1> HIDE DEF tip, old, log
<1>8. PICK t : t = <<tip>> \o log
  OBVIOUS
<1>9. /\ t \in Seq(Commits) /\ IsInjective(t) /\ t # <<>> /\ Head(t) = tip
      /\ \A j \in DOMAIN t : t[j].id <= pushed'
      /\ \A j \in DOMAIN log : j + 1 \in DOMAIN t /\ t[j + 1] = log[j]
  <2>1. /\ log \in Seq(Commits) /\ IsInjective(log) /\ tip \in Commits /\ pushed' \in Nat
        /\ tip.id <= pushed'
        /\ \A j \in DOMAIN log : log[j].id <= pushed' /\ log[j] # tip
    BY <1>4, <1>5, <1>7
  <2>2. OnTop(t, log, tip, pushed')
    BY <1>8, <2>1, TipGrows
  <2> QED
    BY <2>2 DEF OnTop
<1>10. branch' = [branch EXCEPT ![n] = t] /\ branch'[n] = t /\ \A m \in Refs \ {n} : branch'[m] = branch[m]
  BY <1>1, <1>3, <1>8
<1>11. \A j \in DOMAIN branch[n] : \E k \in DOMAIN t : t[k] = branch[n][j] /\ k > j
  <2> SUFFICES ASSUME NEW j \in DOMAIN branch[n] PROVE \E k \in DOMAIN t : t[k] = branch[n][j] /\ k > j
    OBVIOUS
  <2>1. PICK k \in DOMAIN log : log[k] = branch[n][j] /\ k >= j
    BY <1>7
  <2>2. k \in Nat /\ j \in Nat
    BY <1>6, <1>7
  <2>3. k + 1 \in DOMAIN t /\ t[k + 1] = branch[n][j] /\ k + 1 > j
    BY <1>9, <2>1, <2>2
  <2> QED
    BY <2>3
<1>12. Pushed(n)
  <2>1. CASE Lose(n)
    BY <1>10, <2>1, LoseNotes DEF Pushed
  <2>2. CASE UNCHANGED <<shown, req>> /\ (branch[n] # <<>> /\ Head(branch[n]).readme => readme)
    <3>1. OnlyLoses
      BY <2>2 DEF OnlyLoses, WebInv, WebTypeOK
    <3>2. Readme(branch[n]) => Readme(branch'[n])
      BY <1>5, <1>9, <1>10, <2>2 DEF Readme
    <3> QED
      BY <1>9, <1>10, <2>2, <3>1, <3>2 DEF Pushed
  <2> QED
    BY <1>3, <2>1, <2>2
<1> QED
  BY <1>3, <1>4, <1>9, <1>10, <1>11, <1>12, PushKeeps

-----------------------------------------------------------------------------
(* the theorems *)

\* Nothing is pushed, shown or asked for at first.
LEMMA WebBegins == ASSUME WebConstantsOK, WebInit PROVE WebInv
<1>1. /\ branch = [n \in Refs |-> <<>>] /\ pushed = 0 /\ shown = NoPage
      /\ req = NoRequest /\ walk = NoWalk
  BY DEF WebInit
<1>2. WebTypeOK
  <2>1. branch \in [Refs -> Seq(Commits)]
    BY <1>1
  <2>2. \A n \in Refs : IsInjective(branch[n])
    BY <1>1 DEF IsInjective
  <2>3. walk \in [ref : Refs \cup {Nothing}, left : SUBSET Commits, back : BOOLEAN]
    BY <1>1 DEF NoWalk
  <2>4. pushed \in 0..MaxCommits
    BY <1>1, WebConstants
  <2> QED
    BY <1>1, <2>1, <2>2, <2>3, <2>4, EmptyTypes DEF WebTypeOK
<1>3. Numbered
  BY <1>1 DEF Numbered
<1>4. WalkOK
  BY <1>1 DEF WalkOK, NoWalk
<1>5. req.calls = <<>> /\ ~req.missing /\ ShownOK(shown)
  BY <1>1, EmptyTypes
<1>6. MissingOnlyIfLost
  BY <1>5 DEF MissingOnlyIfLost
<1> QED
  BY <1>2, <1>3, <1>4, <1>5, <1>6 DEF WebInv

\* Every step of the reader, of the handlers and of the pushes keeps the invariant.
LEMMA WebStep == ASSUME WebInv, [WebNext]_pages PROVE WebInv'
<1>1. CASE \E n \in Refs : Push(n) \/ MoveBack(n)
  BY <1>1, PushesKeep, MoveBackKeeps
<1>2. CASE Open \/ FollowTab \/ FollowLink \/ FollowOlder \/ FollowNewer
  BY <1>2, RequestsKeep
<1>3. CASE Submit \/ GitFails
  BY <1>3, SubmitKeeps, GitFailsKeeps
<1>4. CASE HasRef \/ SymbolicRef \/ RevParse \/ FirstRef
  BY <1>4, HasRefKeeps, SymbolicRefKeeps, RevParseKeeps, FirstRefKeeps
<1>5. CASE ListRefs \/ CommitLog \/ FindReadme \/ BlobAt \/ TreeEntries \/ DiffOf
  BY <1>5, ListRefsKeeps, CommitLogKeeps, FindReadmeKeeps, BlobAtKeeps, TreeEntriesKeeps, DiffOfKeeps
<1>6. CASE UNCHANGED pages
  <2>1. UNCHANGED <<branch, pushed, shown, req, walk>>
    BY <1>6 DEF pages
  <2>2. WebTypeOK' /\ Numbered' /\ WalkOK' /\ MissingOnlyIfLost'
    BY <2>1 DEF WebInv, WebTypeOK, Numbered, WalkOK, MissingOnlyIfLost, IsInjective
  <2>3. ShownOK(shown)'
    BY <2>1, SamePage DEF WebInv
  <2>4. req'.calls # <<>> => RequestOK(req, shown)'
    BY <2>1, SameRequest DEF WebInv
  <2> QED
    BY <2>2, <2>3, <2>4 DEF WebInv
<1> QED
  BY <1>1, <1>2, <1>3, <1>4, <1>5, <1>6 DEF WebNext

\* The invariant of the pages.
LEMMA WebAlways == ASSUME WebConstantsOK PROVE WebSpec => []WebInv
<1>1. WebInit => WebInv
  BY WebBegins
<1>2. WebInv /\ [WebNext]_pages => WebInv'
  BY WebStep
<1> QED
  BY <1>1, <1>2, PTL DEF WebSpec

\* A log never repeats a commit, a page number is never negative, and only HEAD's branch,
\* an existing one or "main" becomes the ref of a page.
THEOREM PagesTyped == ASSUME WebConstantsOK PROVE WebSpec => []WebTypeOK
<1>1. WebInv => WebTypeOK
  BY DEF WebInv
<1> QED
  BY <1>1, WebAlways, PTL

\* A reader who follows the log to its end has seen every commit that was there when the
\* walk began, unless the branch was moved back: for any page size, any number of names
\* and commits, and pushes and merges between any two calls of git.
THEOREM LogComplete == ASSUME WebConstantsOK PROVE WebSpec => []LogIsComplete
<1>1. WebInv => LogIsComplete
  BY DEF WebInv, WalkOK, LogIsComplete
<1> QED
  BY <1>1, WebAlways, PTL

\* A page fails for want of a ref or a file only if a push took it away after the
\* rendering of the page with the link, or of this one, had begun; or if it is excused,
\* because a git call failed or there was no branch.
THEOREM MissingWasLost == ASSUME WebConstantsOK PROVE WebSpec => []MissingOnlyIfLost
<1>1. WebInv => MissingOnlyIfLost
  BY DEF WebInv, MissingOnlyIfLost
<1> QED
  BY <1>1, WebAlways, PTL

==============================================================================
