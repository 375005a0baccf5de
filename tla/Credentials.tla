---------------------------- MODULE Credentials ----------------------------
(***************************************************************************)
(* The secrets of a dial: what the server asks for, what the operator      *)
(* types, and the two-phase cache of src/internal/remote/prompt.go that    *)
(* answers a reconnect with the password that was typed once.              *)
(*                                                                         *)
(* A challenge is "password" or "code" when it is a single question that   *)
(* is not echoed, and "form" when it is echoed or has several questions;   *)
(* a form asks for a one-time code.                                        *)
(***************************************************************************)
EXTENDS Naturals, Sequences

Kinds == {"password", "code", "form"}

\* The n-th password the account has had, the n-th one-time code, and what an
\* operator who mistypes or cancels the prompt sends.
Password(n) == [kind |-> "password", n |-> n]
Code(n) == [kind |-> "code", n |-> n]
Mistyped == [kind |-> "mistyped", n |-> 0]
NoSecret == [kind |-> "none", n |-> 0]

EmptyCache == [committed |-> NoSecret, pending |-> NoSecret]

HasCommit(cache) == cache.committed # NoSecret

(* Mutant: every answer goes through the cache. *)
CacheableAll(challenge) == challenge \in Kinds

\* Which challenges go through the cache.
Cacheable(challenge) == challenge \in {"password", "code"}

\* The cache answers for the operator.
Silent(cache, challenge) == Cacheable(challenge) /\ HasCommit(cache)

(* Mutant: the secret is reusable before the dial has proved it. *)
StagedAsCommitted(cache, challenge, secret) ==
  IF Cacheable(challenge) THEN [cache EXCEPT !.committed = secret] ELSE cache

Staged(cache, challenge, secret) ==
  IF Cacheable(challenge) THEN [cache EXCEPT !.pending = secret] ELSE cache

Committed(cache) ==
  IF cache.pending = NoSecret THEN cache
  ELSE [committed |-> cache.pending, pending |-> NoSecret]

\* The server's judgement: the current password, and codes it has not seen.
Right(challenge, secret, password, spent) ==
  IF challenge = "password"
  THEN secret = Password(password)
  ELSE secret.kind = "code" /\ secret \notin spent

=============================================================================
