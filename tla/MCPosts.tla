-------------------------------- MODULE MCPosts --------------------------------
\* TLC instance of Posts: an author, a reader who follows, mutes and is blocked,
\* and a request without a user.
EXTENDS Posts, TLC

CONSTANTS author, reader, p1, c1, m1

MCAuthor == [p \in Posts |-> author]
MCOwner == [m \in Media |-> author]
MCEdges == {<<reader, author>>}
MCBlockEdges == {<<author, reader>>}
MCDeployments == {Capabilities, {"mutes"}, {"follow_requests", "moderation"}}
MCRequests == {[op |-> "read", viewer |-> Nobody, post |-> p1],
               [op |-> "save", viewer |-> reader, post |-> p1],
               [op |-> "comment", viewer |-> reader, post |-> p1]}
=============================================================================
