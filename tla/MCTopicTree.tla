---------------------------- MODULE MCTopicTree ----------------------------
EXTENDS TopicTree

CONSTANTS a, b, c,     \* levels
          long, stub   \* a level that does not fit, and what is kept of it

SevenTopics == {<<a>>, <<a, a>>, <<a, b>>, <<Empty, a, Empty, c>>, <<b, a>>, <<c>>,
                <<Empty>>}
OneTopic == {<<a>>}
LongTopic == {<<long>>}

CutAll == [s \in {a, b, c, long} |-> IF s = long THEN stub ELSE s]
=============================================================================
