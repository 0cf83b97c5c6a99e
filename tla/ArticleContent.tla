--------------------------- MODULE ArticleContent ---------------------------
(***************************************************************************)
(* What an article says, and how it gets into a file: the model's answer,  *)
(* its merge with the claims of the revision it updates, the citation rows *)
(* stored beside the payload, the list of changes put before the reviewer, *)
(* and the rendering that replaces the managed region of a file a person   *)
(* edits.                                                                  *)
(*                                                                         *)
(* One article, one compile or publication at a time: how they overlap is  *)
(* the subject of ProposalReview.  Text stands for its escaped literal.    *)
(***************************************************************************)
EXTENDS Integers, FiniteSets, SequencesExt

CONSTANTS
  Answer,       \* what the model may answer
  Verified,     \* citations whose quote is the text of a page it was sent
  UserLine,     \* lines a person may insert anywhere
  RelatedKey,   \* the section key of related concepts
  RelatedTitle, \* the heading they have when no section brings one
  Word,         \* headings, texts and titles
  Page,
  MaxCompiles,  \* bound on the compiles
  MaxEdits,     \* bound on the edits of the file
  MaxCells,     \* cells of the largest table a diff is found with
  None

\* A payload has sections, each with a key, a heading and blocks, and related
\* concepts; a citation has a page and a span.
Citation == [page : Page, start : Nat, end : Nat]
Blocks(cites) == [text : Word, cites : cites]
Sections(cites) == [key : STRING, heading : Word, blocks : Seq(Blocks(cites))]
Payloads(cites) ==
  [sections : Seq(Sections(cites)), related : Seq(Blocks(cites))]

\* A line has a kind, a heading, text or page, and the pages it refers to.
Kinds == {"frontmatter", "start", "end", "marker", "note", "heading", "claim",
          "related", "definition"}
Lines == [kind : Kinds, what : Word \cup Page \cup {None}, pages : Seq(Page)]

ASSUME ContentConstants ==
  /\ MaxCompiles \in Nat /\ MaxEdits \in Nat /\ MaxCells \in Nat
  /\ RelatedKey \in STRING /\ RelatedTitle \in Word /\ None \notin Word
  /\ Answer \subseteq Payloads(Seq(Citation)) /\ Verified \subseteq Citation
  /\ UserLine \subseteq Lines

VARIABLES
  article,   \* the payload of the applied revision, or None
  managed,   \* the managed region it was published with (managed_sha256)
  file,      \* the lines of the article's file, or None
  proposal,  \* the proposal in review, with its rows, or None
  compiles,  \* compiles so far
  edits      \* edits so far

vars == <<article, managed, file, proposal, compiles, edits>>

Init ==
  /\ article = None /\ managed = <<>> /\ file = None
  /\ proposal = None
  /\ compiles = 0 /\ edits = 0

----------------------------------------------------------------------------
\* Claims: the blocks of all sections, in order, then the related concepts.

BlocksOf(p) ==
  FlattenSeq([s \in DOMAIN p.sections |->
    [b \in DOMAIN p.sections[s].blocks |->
       [key     |-> p.sections[s].key,
        heading |-> p.sections[s].heading,
        text    |-> p.sections[s].blocks[b].text,
        cites   |-> p.sections[s].blocks[b].cites]]])

RelatedOf(p) ==
  [r \in DOMAIN p.related |->
     [key |-> RelatedKey, heading |-> None, text |-> p.related[r].text,
      cites |-> p.related[r].cites]]

Claims(p) == BlocksOf(p) \o RelatedOf(p)

CitationsOf(p) == UNION {ToSet(Claims(p)[i].cites) : i \in DOMAIN Claims(p)}

\* validate_citation: a page that was sent, a span within it, and its text.
Supported(c) == c \in Verified

\* validate_response: every block is cited, and every citation is supported.
ValidAnswer(p) ==
  /\ p.sections # <<>>
  /\ \A s \in DOMAIN p.sections : p.sections[s].blocks # <<>>
  /\ \A i \in DOMAIN Claims(p) : Claims(p)[i].cites # <<>>
  /\ \A c \in CitationsOf(p) : Supported(c)

----------------------------------------------------------------------------
\* accumulate: what an additive update makes of an answer.

SameSlot(c, d) == c.page = d.page /\ c.start = d.start

\* Mutant: the newer span takes the slot.
MergeNewer(old, new) ==
  SelectSeq(old, LAMBDA c : ~ \E i \in DOMAIN new : SameSlot(new[i], c)) \o new
\* merge_citations: a slot, once taken, keeps its span.
MergeOne(kept, c) ==
  IF \E i \in DOMAIN kept : SameSlot(kept[i], c) THEN kept ELSE Append(kept, c)
Merge(old, new) ==
  LET kept[n \in 0..Len(new)] ==
        IF n = 0 THEN old ELSE MergeOne(kept[n - 1], new[n])
  IN kept[Len(new)]

\* Position of the first element that has a property, or 0.
FirstTwin(blocks, text) == SelectInSeq(blocks, LAMBDA b : b.text = text)
FirstSectionWith(sections, key, text) ==
  SelectInSeq(sections,
    LAMBDA s : s.key = key /\ FirstTwin(s.blocks, text) # 0)
FirstSection(sections, key, heading) ==
  SelectInSeq(sections, LAMBDA s : s.key = key /\ s.heading = heading)

AddBlock(sections, b) ==
  LET twin == FirstSectionWith(sections, b.key, b.text)
      target == FirstSection(sections, b.key, b.heading)
      block == [text |-> b.text, cites |-> b.cites]
  IN IF twin # 0
     THEN LET i == FirstTwin(sections[twin].blocks, b.text)
          IN [sections EXCEPT ![twin].blocks[i].cites = Merge(@, b.cites)]
     ELSE IF target = 0
     THEN Append(sections, [key |-> b.key, heading |-> b.heading,
                            blocks |-> <<block>>])
     ELSE [sections EXCEPT ![target].blocks = Append(@, block)]

AddRelated(related, r) ==
  LET i == FirstTwin(related, r.text)
  IN IF i = 0 THEN Append(related, r)
     ELSE [related EXCEPT ![i].cites = Merge(@, r.cites)]

AddBlocks(sections, blocks) ==
  LET sum[n \in 0..Len(blocks)] ==
        IF n = 0 THEN sections ELSE AddBlock(sum[n - 1], blocks[n])
  IN sum[Len(blocks)]

AddAllRelated(related, new) ==
  LET sum[n \in 0..Len(new)] ==
        IF n = 0 THEN related ELSE AddRelated(sum[n - 1], new[n])
  IN sum[Len(new)]

Accumulate(prior, additions) ==
  [sections |-> AddBlocks(prior.sections, BlocksOf(additions)),
   related  |-> AddAllRelated(prior.related, additions.related)]

----------------------------------------------------------------------------
\* Citation rows, stored with the proposal and compared before a publication.

\* Mutant: indexes start again in every section.
IndexInSection(claims, i) ==
  Cardinality({j \in 1..(i - 1) : claims[j].key = claims[i].key
                                  /\ claims[j].heading = claims[i].heading})

\* Blocks are numbered per key, across sections; the related concepts
\* continue those of their key.
Index(claims, i) ==
  Cardinality({j \in 1..(i - 1) : claims[j].key = claims[i].key})

\* The rows that validate_normalized_citations expects.
ExpectedRows(p) ==
  LET claims == Claims(p) IN
  UNION {{[key |-> claims[i].key, index |-> Index(claims, i), cite |-> c] :
            c \in ToSet(claims[i].cites)} : i \in DOMAIN claims}

\* INSERT OR IGNORE: a key, an index, a page and a start hold one row.
Insert(rows, row) ==
  IF \E r \in rows : /\ r.key = row.key /\ r.index = row.index
                     /\ SameSlot(r.cite, row.cite)
  THEN rows ELSE rows \cup {row}

InsertClaim(rows, key, index, cites) ==
  LET kept[n \in 0..Len(cites)] ==
        IF n = 0 THEN rows
        ELSE Insert(kept[n - 1], [key |-> key, index |-> index, cite |-> cites[n]])
  IN kept[Len(cites)]

InsertRows(p) ==
  LET claims == Claims(p)
      rows[n \in 0..Len(claims)] ==
        IF n = 0 THEN {}
        ELSE InsertClaim(rows[n - 1], claims[n].key, Index(claims, n),
                         claims[n].cites)
  IN rows[Len(claims)]

\* load_citation_state: a row must still quote its page, or no row is read.
RowsVerify(rows) == \A row \in rows : Supported(row.cite)

----------------------------------------------------------------------------
\* What the review lists as removed.

\* A claim is retained when one with its key, heading and text has its
\* citations too.
HasClaim(p, claim) ==
  \E i \in DOMAIN Claims(p) :
    LET c == Claims(p)[i] IN
    /\ c.key = claim.key /\ c.heading = claim.heading /\ c.text = claim.text
    /\ ToSet(claim.cites) \subseteq ToSet(c.cites)

RemovedClaims(before, after) ==
  {i \in DOMAIN Claims(before) : ~HasClaim(after, Claims(before)[i])}

----------------------------------------------------------------------------
\* Rendering.

Line(kind, what, pages) == [kind |-> kind, what |-> what, pages |-> pages]
Frontmatter == Line("frontmatter", None, <<>>)  \* with the article's identity
StartMarker == Line("start", None, <<>>)
EndMarker == Line("end", None, <<>>)
Reserved(line) == line.kind \in {"start", "end", "marker"}
Definition(page) == Line("definition", page, <<>>)

\* citation_references: a page is referred to once per claim.
Refer(pages, page) ==
  IF page \in ToSet(pages) THEN pages ELSE Append(pages, page)
References(cites) ==
  LET pages[n \in 0..Len(cites)] ==
        IF n = 0 THEN <<>> ELSE Refer(pages[n - 1], cites[n].page)
  IN pages[Len(cites)]

ClaimLine(block) == Line("claim", block.text, References(block.cites))

RelatedLines(p) ==
  [r \in DOMAIN p.related |->
     Line("related", p.related[r].text, References(p.related[r].cites))]

CitedPages(p) == {c.page : c \in CitationsOf(p)}

\* Related concepts follow the blocks of their section, or come in a section
\* of their own; one source line per page closes the region.
Rendered(p) ==
  LET Section(s) ==
        <<Line("heading", s.heading, <<>>)>>
        \o [b \in DOMAIN s.blocks |-> ClaimLine(s.blocks[b])]
        \o (IF s.key = RelatedKey THEN RelatedLines(p) ELSE <<>>)
      sections == FlattenSeq([s \in DOMAIN p.sections |-> Section(p.sections[s])])
  IN sections
     \o (IF \E s \in DOMAIN p.sections : p.sections[s].key = RelatedKey THEN <<>>
         ELSE <<Line("heading", RelatedTitle, <<>>)>> \o RelatedLines(p))
     \o [i \in DOMAIN SetToSeq(CitedPages(p)) |->
           Definition(SetToSeq(CitedPages(p))[i])]

NewArticle(region) ==
  <<Frontmatter, StartMarker>> \o region \o <<EndMarker>>

Positions(lines, line) == {i \in DOMAIN lines : lines[i] = line}
MarkerAt(lines, marker) == CHOOSE i \in Positions(lines, marker) : TRUE

\* managed_region and replace_managed_content want one marker of each kind,
\* in this order.
HasRegion(lines) ==
  /\ Cardinality(Positions(lines, StartMarker)) = 1
  /\ Cardinality(Positions(lines, EndMarker)) = 1
  /\ MarkerAt(lines, StartMarker) < MarkerAt(lines, EndMarker)

Prefix(lines) == SubSeq(lines, 1, MarkerAt(lines, StartMarker))
Suffix(lines) == SubSeq(lines, MarkerAt(lines, EndMarker), Len(lines))
Region(lines) ==
  SubSeq(lines, MarkerAt(lines, StartMarker) + 1, MarkerAt(lines, EndMarker) - 1)

\* Mutant: an update writes the article anew.
WrittenAnew(lines, region) == NewArticle(region)

Replaced(lines, region) == Prefix(lines) \o region \o Suffix(lines)

\* article_aliases: the frontmatter comes first and names this article.
HasIdentity(lines) == lines # <<>> /\ lines[1] = Frontmatter

\* Mutant: a footnote of the user's may have the name of a generated one.
ShadowsAllowed(lines, region) == TRUE

NoShadows(lines, region) ==
  \A i, j \in DOMAIN lines :
    /\ i # j
    /\ lines[i] = lines[j]
    /\ lines[i].kind = "definition"
    => ~ \E k \in DOMAIN region : region[k] = lines[i]

\* validate_rendered_article, on the result.
WellFormed(lines, region) ==
  /\ HasRegion(lines) /\ Region(lines) = region
  /\ Cardinality({i \in DOMAIN lines : Reserved(lines[i])}) = 2
  /\ NoShadows(lines, region)

----------------------------------------------------------------------------
\* rendered_diff: the lines both sides have in common at the start and at the
\* end, and in between a longest common subsequence, if its table is not too
\* large, or else all the lines of one side and then all those of the other.

CommonPrefix(old, new) ==
  CHOOSE n \in 0..Len(old) :
    /\ n <= Len(new) /\ \A i \in 1..n : old[i] = new[i]
    /\ n < Len(old) /\ n < Len(new) => old[n + 1] # new[n + 1]

\* Mutant: the suffix may overlap the prefix.
SuffixBound(old, new, prefix) == IF Len(old) < Len(new) THEN Len(old) ELSE Len(new)

\* What the prefix leaves of the shorter side.
Rest(old, new, prefix) ==
  (IF Len(old) < Len(new) THEN Len(old) ELSE Len(new)) - prefix

CommonSuffix(old, new, prefix) ==
  LET Same(k) == old[Len(old) - k] = new[Len(new) - k]
      rest == Rest(old, new, prefix)
  IN CHOOSE n \in 0..rest :
       (\A k \in 0..(n - 1) : Same(k)) /\ (n < rest => ~Same(n))

\* A row of the table, from the one below it and the line of old between them:
\* for the last l lines of new.
RowOf(line, new, below) ==
  LET row[l \in 0..Len(new)] ==
        IF l = 0 THEN 0
        ELSE IF line = new[Len(new) - l + 1] THEN below[l - 1] + 1
        ELSE IF row[l - 1] > below[l] THEN row[l - 1] ELSE below[l]
  IN row

\* The table of the longest common subsequences of what is left of the two
\* sides: Lengths(old, new)[k][l] is for the last k lines and the last l.
Lengths(old, new) ==
  LET row[k \in 0..Len(old)] ==
        IF k = 0 THEN [l \in 0..Len(new) |-> 0]
        ELSE RowOf(old[Len(old) - k + 1], new, row[k - 1])
  IN row

\* The side a line is on stands for the sign it is printed with.
Shows(side, line) == [side |-> side, line |-> line]
Signed(side, lines) == [i \in DOMAIN lines |-> Shows(side, lines[i])]

\* The walk through the table, a line at a time: it is past i lines of old and
\* j of new.
Start == [i |-> 0, j |-> 0, out |-> <<>>]
Walk(old, new, cell, w) ==
  LET i == Len(old) - w.i
      j == Len(new) - w.j
  IN IF i = 0 /\ j = 0 THEN w
     ELSE IF i > 0 /\ j > 0 /\ old[w.i + 1] = new[w.j + 1]
     THEN [i |-> w.i + 1, j |-> w.j + 1,
           out |-> Append(w.out, Shows("both", old[w.i + 1]))]
     ELSE IF i > 0 /\ (j = 0 \/ cell[i - 1][j] >= cell[i][j - 1])
     THEN [i |-> w.i + 1, j |-> w.j,
           out |-> Append(w.out, Shows("old", old[w.i + 1]))]
     ELSE [i |-> w.i, j |-> w.j + 1,
           out |-> Append(w.out, Shows("new", new[w.j + 1]))]

Walked(old, new) ==
  LET cell == Lengths(old, new)
      end == Len(old) + Len(new)
      walk[n \in 0..end] ==
        IF n = 0 THEN Start ELSE Walk(old, new, cell, walk[n - 1])
  IN walk[end].out

\* The table of the two sides is not too large.
Fits(old, new) == Len(old) + 1 <= MaxCells \div (Len(new) + 1)

Middle(old, new) ==
  IF Fits(old, new) THEN Walked(old, new)
  ELSE Signed("old", old) \o Signed("new", new)

\* What the two sides begin and end with, and what is left of each.
Cut(old, new) ==
  LET p == CommonPrefix(old, new)
      s == CommonSuffix(old, new, p)
  IN [prefix |-> SubSeq(old, 1, p),
      old    |-> SubSeq(old, p + 1, Len(old) - s),
      new    |-> SubSeq(new, p + 1, Len(new) - s),
      suffix |-> SubSeq(old, Len(old) - s + 1, Len(old))]

\* Equal files have an empty diff.
Diff(old, new) ==
  LET cut == Cut(old, new)
  IN IF old = new THEN <<>>
     ELSE Signed("both", cut.prefix) \o Middle(cut.old, cut.new)
          \o Signed("both", cut.suffix)

----------------------------------------------------------------------------
\* Actions.

\* load_base: the file's managed region is the one that was applied.
BaseIsReadable == file # None /\ HasRegion(file) /\ Region(file) = managed

Propose(mode, answer, payload) ==
  /\ proposal' = [mode |-> mode, answer |-> answer, payload |-> payload,
                  rows |-> InsertRows(payload)]
  /\ compiles' = compiles + 1
  /\ UNCHANGED <<article, managed, file, edits>>

Create(answer) ==
  /\ compiles < MaxCompiles
  /\ article = None
  /\ ValidAnswer(answer)
  /\ Propose("create", answer, answer)

\* The merged payload is validated again; its retained citations are.
Update(mode, answer) ==
  /\ compiles < MaxCompiles
  /\ article # None /\ BaseIsReadable
  /\ ValidAnswer(answer)
  /\ Propose(mode, answer,
             IF mode = "additive" THEN Accumulate(article, answer) ELSE answer)

\* prepare_article, without the checks of ProposalReview.
Content(p) ==
  IF p.mode = "create" THEN NewArticle(Rendered(p.payload))
  ELSE Replaced(file, Rendered(p.payload))

Publishable(p) ==
  /\ p.mode # "create" => BaseIsReadable
  /\ p.mode = "additive" => RemovedClaims(article, p.payload) = {}
  /\ RowsVerify(p.rows) /\ p.rows = ExpectedRows(p.payload)
  /\ HasIdentity(Content(p))
  /\ WellFormed(Content(p), Rendered(p.payload))

\* Review and apply.  A create may replace a file that was there, with leave.
Publish ==
  /\ proposal # None
  /\ Publishable(proposal)
  /\ file' = Content(proposal)
  /\ managed' = Rendered(proposal.payload)
  /\ article' = proposal.payload
  /\ proposal' = None
  /\ UNCHANGED <<compiles, edits>>

Reject ==
  /\ proposal # None
  /\ proposal' = None
  /\ UNCHANGED <<article, managed, file, compiles, edits>>

\* A person writes a line anywhere, or deletes one.
Edit ==
  /\ edits < MaxEdits
  /\ file # None
  /\ \/ \E i \in 1..(Len(file) + 1), line \in UserLine :
          file' = InsertAt(file, i, line)
     \/ \E i \in DOMAIN file : file' = RemoveAt(file, i)
  /\ edits' = edits + 1
  /\ UNCHANGED <<article, managed, proposal, compiles>>

Next ==
  \/ \E answer \in Answer :
       \/ Create(answer)
       \/ \E mode \in {"additive", "regenerate"} : Update(mode, answer)
  \/ Publish \/ Reject \/ Edit

Spec == Init /\ [][Next]_vars

----------------------------------------------------------------------------
\* Properties.

\* Every claim of a payload has citations, all of them verified.
Approvable == Payloads(Seq(Verified) \ {<<>>})

\* Every variable has its type; a payload has no claim without a citation and
\* no citation that was not verified.
TypeOK ==
  /\ article # None => article \in Approvable
  /\ managed \in Seq(Lines)
  /\ file # None => file \in Seq(Lines)
  /\ proposal # None =>
       /\ proposal.mode \in {"create", "additive", "regenerate"}
       /\ proposal.answer \in Answer /\ proposal.payload \in Approvable
       /\ \A row \in proposal.rows : row.cite \in Verified
  /\ compiles \in 0..MaxCompiles /\ edits \in 0..MaxEdits

\* An additive update never loses a claim of the revision it updates, nor a
\* citation of one, so review never stops it for discarding approved content
\* (article_updates.cpp:60-72, 156-201 and 234-236).
AdditiveKeeps ==
  proposal # None /\ proposal.mode = "additive"
  => RemovedClaims(article, proposal.payload) = {}

\* What the model added is there as well: every claim of its answer is in the
\* merged proposal, under its key, with all the places it cited, though
\* perhaps under another heading or with a span that was there before
\* (article_updates.cpp:60-72 and 160-199).
AnswerKept ==
  proposal # None /\ proposal.mode = "additive" =>
    \A i \in DOMAIN Claims(proposal.answer) :
      LET claim == Claims(proposal.answer)[i] IN
      \A c \in ToSet(claim.cites) :
        \E j \in DOMAIN Claims(proposal.payload) :
          LET kept == Claims(proposal.payload)[j] IN
          /\ kept.key = claim.key /\ kept.text = claim.text
          /\ \E d \in ToSet(kept.cites) : SameSlot(c, d)

\* An answer the article already contains changes nothing: repeated additive
\* updates with one answer do not pile up claims or citations
\* (article_updates.cpp:162-187).
RepeatAddsNothing ==
  proposal # None /\ proposal.mode = "additive"
  => Accumulate(proposal.payload, proposal.answer) = proposal.payload

\* What additive updates make of approved content is well formed, every claim
\* cited and verified, and neither side loses anything.
Accumulates == TypeOK /\ AdditiveKeeps /\ AnswerKept /\ RepeatAddsNothing

SlotClash(p) ==
  \E i \in DOMAIN Claims(p) :
    \E c, d \in ToSet(Claims(p)[i].cites) : c # d /\ SameSlot(c, d)

\* No citation is lost to the composite key of its table, whatever sections,
\* repeated keys and related concepts a proposal has, except where one claim
\* cites two spans that start at one place (compiler.cpp:768-788 and 960-981).
RowsComplete ==
  proposal # None /\ ~SlotClash(proposal.payload)
  => proposal.rows = ExpectedRows(proposal.payload)

\* An update leaves every line outside the managed region as it was
\* (rendering.cpp:258-287).
UserLinesKept ==
  [][Publish /\ article # None =>
       Prefix(file') = Prefix(file) /\ Suffix(file') = Suffix(file)]_vars

\* What is published can be updated again, and its references resolve: the
\* region can be read back, every page a claim refers to has its one source
\* line in the whole file, and every source line of the region is referred to
\* (rendering.cpp:154-234 and 292-335, article_updates.cpp:111-122).
PublishedReadable ==
  [][Publish =>
       LET refs == UNION {ToSet(managed'[i].pages) : i \in DOMAIN managed'} IN
       /\ HasRegion(file') /\ Region(file') = managed'
       /\ \A g \in refs : Cardinality(Positions(file', Definition(g))) = 1
       /\ \A i \in DOMAIN managed' :
            managed'[i].kind = "definition" => managed'[i].what \in refs]_vars

\* The lines of a diff that have one of the sides.
Show(lines, shown, sides) ==
  IF shown.side \in sides THEN Append(lines, shown.line) ELSE lines
Shown(diff, sides) ==
  LET lines[n \in 0..Len(diff)] ==
        IF n = 0 THEN <<>> ELSE Show(lines[n - 1], diff[n], sides)
  IN lines[Len(diff)]

\* Without its "new" lines the diff is the old file, and without its "old" lines
\* the new one.
Exact(diff, old, new) ==
  /\ Shown(diff, {"both", "old"}) = old
  /\ Shown(diff, {"both", "new"}) = new

\* The diff of a change that a reviewer reads is exact.  As long as the table of
\* the changed lines is not too large it is also as short as can be: no common
\* subsequence of the whole files is longer than the lines it shows as unchanged.
\* Beyond that, those are the lines that both begin and end with
\* (rendering.cpp:371-411).
DiffExact ==
  [][Publish /\ file' # file =>
       LET old == IF file = None THEN <<>> ELSE file
           diff == Diff(old, file')
           cut == Cut(old, file')
       IN /\ Exact(diff, old, file')
          /\ Len(Shown(diff, {"both"})) =
               IF Fits(cut.old, cut.new) THEN Lengths(old, file')[Len(old)][Len(file')]
               ELSE Len(cut.prefix) + Len(cut.suffix)]_vars
=============================================================================
