--------------------------- MODULE MCArticleContent ---------------------------
\* Answers for TLC that meet each other in every way a merge tells apart: the
\* same claim again, with a wider span, another span or page, under another
\* heading, twice in one answer and in a row, in the related section, two spans
\* that start at one place; and one answer that cites what it was not sent.
EXTENDS ArticleContent, TLC

CONSTANTS h1, h2, t1, t2, r1, g1, g2, related

Cite(page, start, end) == [page |-> page, start |-> start, end |-> end]
a == Cite(g1, 0, 1)
wide == Cite(g1, 0, 2)
later == Cite(g1, 1, 2)
other == Cite(g2, 0, 1)
unsent == Cite(g2, 1, 2)

NewBlock(text, cites) == [text |-> text, cites |-> cites]
NewSection(key, heading, blocks) ==
  [key |-> key, heading |-> heading, blocks |-> blocks]
NewPayload(sections, rel) == [sections |-> sections, related |-> rel]
Plain(heading, blocks) == NewPayload(<<NewSection("summary", heading, blocks)>>, <<>>)

MCAnswer == {
  Plain(h1, <<NewBlock(t1, <<a>>)>>),
  Plain(h1, <<NewBlock(t1, <<wide, later>>), NewBlock(t1, <<later>>)>>),
  Plain(h2, <<NewBlock(t1, <<other>>), NewBlock(t2, <<a>>)>>),
  Plain(h1, <<NewBlock(t2, <<a, wide>>)>>),
  Plain(h1, <<NewBlock(t2, <<unsent>>)>>),
  NewPayload(<<NewSection("summary", h1, <<NewBlock(t2, <<a>>)>>),
               NewSection("summary", h2,
                          <<NewBlock(t2, <<wide>>), NewBlock(t1, <<a>>)>>)>>,
             <<>>),
  NewPayload(<<NewSection("summary", h1, <<NewBlock(t1, <<a>>)>>),
               NewSection(related, h2, <<NewBlock(t2, <<a>>)>>)>>,
             <<NewBlock(r1, <<wide, other>>)>>),
  NewPayload(<<NewSection("summary", h1, <<NewBlock(t1, <<a>>)>>)>>,
             <<NewBlock(r1, <<other>>)>>) }

MCVerified == {a, wide, later, other}
MCWord == {h1, h2, t1, t2, r1}
MCUserLine == {Line("note", t1, <<>>), Line("marker", None, <<>>),
               EndMarker, StartMarker, Definition(g1)}
=============================================================================
