------------------------------ MODULE MCMerkle ------------------------------
(***************************************************************************)
(* Small tries for TLC.                                                    *)
(***************************************************************************)
EXTENDS MerkleUpdate

K1 == <<0, 0, 0, 0, 0, 0, 0, 0>>
K2 == <<0, 0, 0, 0, 0, 0, 0, 1>>
K3 == <<0, 0, 0, 0, 0, 1, 0, 0>>
K4 == <<0, 0, 0, 0, 1, 0, 0, 0>>
K5 == <<0, 1, 0, 0, 0, 0, 0, 0>>
K6 == <<1, 0, 0, 1, 0, 0, 0, 0>>
K7 == <<1, 0, 1, 1, 0, 0, 0, 0>>
MCKeySeq == <<K1, K2, K3, K4, K5, K6, K7>>
MCHash(id) == Run(LAMBDA h, c : (5 * h + c) % 16, 0, id)

put == [t |-> "write", v |-> "new"]
del == [t |-> "write", v |-> NoValue]
get == [t |-> "read", v |-> NoValue]
upd == [t |-> "read_write", v |-> "new"]

S(keys, ov, sessions) == [keys |-> keys, overlay |-> ov, sessions |-> sessions]
Sess(ops, w) == [ops |-> ops, warm |-> w]
MCScenarios == {
  \* an empty trie, a leaf at the root
  S({}, FALSE, <<Sess(<< <<K1, put>>, <<K2, put>>, <<K3, put>>, <<K6, put>> >>, <<>>)>>),
  S({K3}, FALSE, <<Sess(<< <<K2, put>>, <<K3, get>> >>, <<K3>>), Sess(<< <<K2, del>>, <<K3, del>> >>, <<>>)>>),
  S({K6}, FALSE, <<Sess(<< <<K1, put>>, <<K7, del>> >>, <<K7, K1>>), Sess(<< <<K1, get>>, <<K6, del>> >>, <<>>)>>),
  \* pages cross the elision threshold, up and down
  S({K1, K2, K3, K4, K6, K7}, FALSE, <<Sess(<< <<K1, del>>, <<K5, put>>, <<K7, upd>> >>, <<K1>>)>>),
  S({K1, K2, K6}, FALSE, <<Sess(<< <<K3, put>>, <<K4, put>> >>, <<>>), Sess(<< <<K1, upd>>, <<K6, del>> >>, <<K6>>)>>),
  S({K1, K2, K3, K4}, FALSE, <<Sess(<< <<K1, del>>, <<K2, del>>, <<K3, del>> >>, <<>>), Sess(<< <<K1, put>> >>, <<>>)>>),
  S({K1, K3}, FALSE, <<Sess(<< <<K2, put>> >>, <<K2>>), Sess(<< <<K2, del>>, <<K4, put>> >>, <<>>)>>),
  S({K1, K2, K3, K4, K5}, FALSE, <<Sess(<< <<K2, upd>>, <<K3, get>>, <<K5, del>> >>, <<K3>>)>>),
  \* every key is read or changed; everything goes
  S({K1, K2, K4, K6}, FALSE, <<Sess(<< <<K1, get>>, <<K2, get>>, <<K3, get>>, <<K4, get>>, <<K5, get>>, <<K7, get>> >>, <<K4>>)>>),
  S({K1, K2, K3, K6, K7}, FALSE,
    <<Sess(<< <<K1, del>>, <<K2, del>>, <<K3, del>>, <<K6, del>>, <<K7, del>> >>, <<K1, K7>>)>>),
  S({K2, K3, K5, K6, K7}, FALSE, <<Sess(<< <<K1, put>>, <<K3, del>>, <<K6, upd>>, <<K7, del>> >>, <<>>)>>),
  \* overlays that add and change
  S({K1, K6}, TRUE, <<Sess(<< <<K2, put>>, <<K7, put>> >>, <<>>), Sess(<< <<K1, upd>>, <<K3, put>> >>, <<K7>>)>>),
  S({K1, K2, K4}, TRUE, <<Sess(<< <<K1, upd>>, <<K3, put>> >>, <<>>), Sess(<< <<K2, upd>>, <<K5, put>> >>, <<K2>>)>>),
  \* overlays that delete, with no seek to a leaf in front of which the beatree has a deleted key
  S({K1, K6}, TRUE, <<Sess(<< <<K6, del>> >>, <<>>), Sess(<< <<K1, upd>>, <<K7, put>> >>, <<>>)>>),
  S({K1, K2, K3, K4, K6}, TRUE, <<Sess(<< <<K3, del>>, <<K6, del>> >>, <<>>), Sess(<< <<K1, upd>>, <<K5, put>> >>, <<K1>>)>>),
  S({K1, K2, K3, K4}, TRUE, <<Sess(<< <<K2, del>>, <<K3, del>>, <<K4, del>> >>, <<>>), Sess(<< <<K1, get>>, <<K4, put>> >>, <<>>)>>),
  S({K1, K2, K3, K4}, TRUE, <<Sess(<< <<K3, del>>, <<K4, del>> >>, <<>>), Sess(<< <<K3, put>> >>, <<>>), Sess(<< <<K2, upd>> >>, <<K1>>)>>)
}
\* An overlay deletes a key whose value is still in the beatree.
MCDeletes == {S({K1, K2}, TRUE, <<Sess(<< <<K1, del>> >>, <<>>), Sess(<< <<K2, upd>> >>, <<>>)>>)}
MCJunk == hash_internal(TERMINATOR, TERMINATOR)
=============================================================================
