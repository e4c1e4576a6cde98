------------------------------ MODULE MCStorefront ------------------------------
(* Instances of Answering for TLC: two shops, of which s1 answers in llm_first mode; *)
(* s1's bot is also in the other shop's channel.                                    *)
EXTENDS Answering, TLC

CONSTANTS s1, s2, ch1, ch2, p1, p2, p3, a1, c1, c2, c3, r1, r2, l1, l2

MCMerchants == {s1, s2}
MCChannelOf == p1 :> ch1 @@ p2 :> ch2 @@ p3 :> ch1
MCAdminOf == a1 :> s1
MCShopOf == c1 :> s1 @@ c2 :> s2 @@ c3 :> s1
MCBotIn == {<<s1, ch1>>, <<s1, ch2>>, <<s2, ch2>>}
MCPriced == {<<p1, 2>>, <<p2, 1>>}
MCTtl == [llm_first |-> 1, layered |-> 2]
MCGenTime == [llm_first |-> 1, layered |-> 2]

Stock(f) == [p \in Posts |-> IF p \in DOMAIN f THEN f[p] ELSE None]
Feed(f) == [p \in Posts |-> IF p \in DOMAIN f THEN f[p] ELSE 0]

\* Two posts of two channels come in, for two shops.
Filling == [kinds |-> {"post", "backfill"}, feed |-> Feed(p1 :> 1 @@ p2 :> 1),
            stock |-> Stock(<<>>), who |-> {}, asks |-> {}]
\* A post comes in and is edited.
Editing == [kinds |-> {"post", "backfill", "forward"}, feed |-> Feed(p1 :> 2),
            stock |-> Stock(<<>>), who |-> {c1}, asks |-> {}]
\* The other shop's post is edited, forwarded to this shop and comes to its bot.
Foreign == [kinds |-> {"post", "backfill", "forward"}, feed |-> Feed(p2 :> 2),
            stock |-> Stock(p1 :> s1 @@ p2 :> s2), who |-> {c1}, asks |-> {}]
\* A customer points into the catalogue while it is edited.
Pointing == [kinds |-> {"post", "link", "forward", "photo"}, feed |-> Feed(p1 :> 2),
             stock |-> Stock(p1 :> s1), who |-> {c1}, asks |-> {}]
\* A customer is shown carousels of two products, and asks about the second.
Talking == [kinds |-> {"text", "photo"}, feed |-> Feed(<<>>),
            stock |-> Stock(p1 :> s2 @@ p3 :> s2), who |-> {c2}, asks |-> {2}]
\* A customer taps a carousel's button, sends its post's link, and asks about the first
\* product shown.
Tapping == [kinds |-> {"text", "photo", "link", "tap"}, feed |-> Feed(<<>>),
            stock |-> Stock(p1 :> s1), who |-> {c1}, asks |-> {1}]
\* Two customers ask in llm_first mode, and one in layered mode; another shop has a
\* product the provider may name.
Sharing == [kinds |-> {"text"}, feed |-> Feed(<<>>), stock |-> Stock(p1 :> s1 @@ p2 :> s2),
            who |-> {c1, c3}, asks |-> {p1, It}]
Layered == [kinds |-> {"text"}, feed |-> Feed(<<>>), stock |-> Stock(p1 :> s2),
            who |-> {c2}, asks |-> {p1, It, 1}]

MCAgendas == {Filling, Editing, Foreign, Pointing, Talking, Tapping, Sharing, Layered}
MCAsked == {[kinds |-> {"text"}, feed |-> Feed(<<>>), stock |-> Stock(p1 :> s1 @@ p3 :> s1),
             who |-> {c1, c3}, asks |-> {p1, p3, It}]}

Symmetry == Permutations({r1, r2}) \cup Permutations({l1, l2})
=============================================================================
