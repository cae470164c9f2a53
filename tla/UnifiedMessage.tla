--------------------------- MODULE UnifiedMessage ---------------------------
(***************************************************************************)
(* The model that every protocol adapter decodes into and encodes from     *)
(* (meshstar-protocols/src/model.rs and adapter.rs): identities, messages, *)
(* security levels, and the context an adapter works in.                   *)
(*                                                                         *)
(* A string is a sequence of tokens; only ": " and NUL are told apart,     *)
(* because the MeshCore text formats give them a meaning.  A node is a     *)
(* number: its MeshCore key pair, its Meshtastic number and key pair.      *)
(* Keys are compared, never computed with.                                 *)
(***************************************************************************)
EXTENDS Integers, Sequences, SequencesExt

CONSTANTS ByteLen,    \* bytes of each token
          KeyLen      \* bytes of a channel key

Sep == ": "
Nul == "NUL"

\* Bytes of a string.
Bytes(t) ==
    LET upTo[i \in 0..Len(t)] == IF i = 0 THEN 0 ELSE upTo[i - 1] + ByteLen[t[i]]
    IN upTo[Len(t)]

\* What an operation that may fail returns: nothing, or one value.
None == <<>>
Some(x) == <<x>>
IsSome(o) == o # None
Unwrap(o) == o[1]

\* IdentityRef: a full MeshCore key, the first byte of one, a Meshtastic node
\* number, a MeshStar address, everybody on a network, or nobody known.
IdentityRef(kind, n) == [kind |-> kind, n |-> n]
Broadcast == IdentityRef("all", 0)
Unknown == IdentityRef("none", 0)
IsBroadcast(id) == id.kind = "all"

\* SecurityLevel: what the receiver may claim about a message.
Plaintext == [level |-> "Plaintext", channel |-> ""]
ForeignSharedKey(name) == [level |-> "ForeignSharedKey", channel |-> name]
ForeignDirect == [level |-> "ForeignDirect", channel |-> ""]
Undecryptable == [level |-> "Undecryptable", channel |-> ""]

\* UnifiedMessage::text and the defaults the adapters start from.  path and
\* one_byte stand for HopMeta and the hash_size metadata; ack for ack_code.
Message(protocol, ctype, src, dst, text) ==
    [protocol |-> protocol, ctype |-> ctype, src |-> src, dst |-> dst,
     channel |-> None, id |-> 0, reply_to |-> 0, ts |-> None, text |-> text,
     security |-> Plaintext, path |-> <<>>, travelled |-> 0, one_byte |-> FALSE,
     hint |-> None, wants_ack |-> FALSE, ack |-> None, name |-> None, located |-> FALSE]

\* ProtocolContext::peer_key
PeerKey(ctx, node) == node \in ctx.peers

\* DetectionScore::add, over all the points an adapter gives; reject is 0.
Score(points) == IF points > 100 THEN 100 ELSE points
=============================================================================
