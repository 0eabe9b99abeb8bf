------------------------------- MODULE Topics -------------------------------
(***************************************************************************)
(* Topic boards: control/topics.py.  Posts have ids over all boards;  a    *)
(* subscriber has one cursor per topic, which every bounded read of it     *)
(* advances; a post that notifies leaves one announcement.                 *)
(***************************************************************************)
EXTENDS Integers, Sequences, FiniteSets

CONSTANTS
    Boards,       \* topics
    Subscribers,  \* Sessions of one Workspace
    PageSize,     \* limit of a read
    MaxPosts      \* bound: posts

ASSUME TopicAssumption == PageSize \in Nat \ {0} /\ MaxPosts \in Nat

VARIABLES
    posts,       \* topic_posts with their announcement: [topic, home, blast]
    seen,        \* last_seen_post_id of each subscription, -1 when there is none
    since,       \* the cursor each subscription, or the one it took over from, began with
    delivered    \* posts that reads of each subscription returned

topicVars == <<posts, seen, since, delivered>>

On(topic) == {i \in DOMAIN posts : posts[i].topic = topic}
Newest(S) == IF S = {} THEN 0 ELSE CHOOSE i \in S : \A j \in S : j <= i

\* post_topic: the post and its announcement in one transaction.  home says that the
\* author is of the subscribers' Workspace, which is not notified.
post_topic(topic, home, blast) ==
    /\ Len(posts) < MaxPosts
    /\ posts' = Append(posts, [topic |-> topic, home |-> home, blast |-> blast])
    /\ UNCHANGED <<seen, since, delivered>>

Start(topic, existing) == IF existing THEN 0 ELSE Newest(On(topic))

\* subscribe_topic: a subscription that exists keeps its cursor.
subscribe_topic(s, topic) ==
    /\ seen[s][topic] = -1
    /\ \E existing \in BOOLEAN :
          /\ seen' = [seen EXCEPT ![s][topic] = Start(topic, existing)]
          /\ since' = [since EXCEPT ![s][topic] = IF existing THEN 0 ELSE Newest(On(topic))]
    /\ UNCHANGED <<posts, delivered>>

unsubscribe_topic(s, topic) ==
    /\ seen[s][topic] # -1
    /\ seen' = [seen EXCEPT ![s][topic] = -1]
    /\ since' = [since EXCEPT ![s][topic] = 0]
    /\ delivered' = [delivered EXCEPT ![s][topic] = {}]
    /\ UNCHANGED posts

BugPage(S) == {i \in S : Cardinality({j \in S : j >= i}) <= PageSize}

\* The oldest PageSize posts of S.
Page(S) == {i \in S : Cardinality({j \in S : j <= i}) <= PageSize}

\* read_topic for a subscriber: the next page, and the cursor behind it.
read_topic(s, topic) ==
    LET page == Page({i \in On(topic) : i > seen[s][topic]})
    IN  /\ seen[s][topic] # -1 /\ page # {}
        /\ seen' = [seen EXCEPT ![s][topic] = Newest(page)]
        /\ delivered' = [delivered EXCEPT ![s][topic] = @ \cup page]
        /\ UNCHANGED <<posts, since>>

\* _supersede_coordination_handle: subscriptions move to the successor; of two on one topic
\* the greater cursor stands, also over posts that only the other one had still to read.
Supersede(s, t) ==
    LET moved == {topic \in Boards : seen[s][topic] # -1}
        wins == {topic \in moved : seen[s][topic] > seen[t][topic]}
    IN  /\ s # t /\ moved # {}
        /\ seen' = [seen EXCEPT ![s] = [topic \in Boards |-> -1],
                               ![t] = [topic \in Boards |-> IF topic \in wins THEN seen[s][topic] ELSE @[topic]]]
        /\ since' = [since EXCEPT ![s] = [topic \in Boards |-> 0],
                                 ![t] = [topic \in Boards |-> IF topic \in wins THEN since[s][topic] ELSE @[topic]]]
        /\ delivered' = [delivered EXCEPT ![s] = [topic \in Boards |-> {}],
                             ![t] = [topic \in Boards |-> IF topic \in wins THEN delivered[s][topic] ELSE @[topic]]]
        /\ UNCHANGED posts

\* pending_topic_updates
Pending(s, topic) == {i \in On(topic) : i > seen[s][topic] /\ posts[i].blast /\ ~posts[i].home}

TopicInit ==
    /\ posts = << >>
    /\ seen = [s \in Subscribers |-> [topic \in Boards |-> -1]]
    /\ since = [s \in Subscribers |-> [topic \in Boards |-> 0]]
    /\ delivered = [s \in Subscribers |-> [topic \in Boards |-> {}]]

TopicNext ==
    \/ \E topic \in Boards, home, blast \in BOOLEAN : post_topic(topic, home, blast)
    \/ \E s \in Subscribers, topic \in Boards :
       \/ \E t \in Subscribers : Supersede(s, t)
       \/ subscribe_topic(s, topic) \/ unsubscribe_topic(s, topic) \/ read_topic(s, topic)

-----------------------------------------------------------------------------
Owed(s, topic) == {i \in On(topic) : i > since[s][topic]}

\* A subscriber's cursor never passes a post that no read has returned, though ids are shared
\* by all boards, a read returns a page, and subscriptions end and begin again.
NoPostSkipped ==
    \A s \in Subscribers, topic \in Boards :
       seen[s][topic] # -1 => {i \in Owed(s, topic) : i <= seen[s][topic]} \subseteq delivered[s][topic]

\* What a Session is told is pending is exactly the announced posts of another Workspace that it
\* has not been given.
PendingIsNews ==
    \A s \in Subscribers, topic \in Boards :
       seen[s][topic] # -1 =>
          Pending(s, topic) = {i \in Owed(s, topic) \ delivered[s][topic] : posts[i].blast /\ ~posts[i].home}
=============================================================================
