---------------------------- MODULE MCComposeSmoke ----------------------------
\* verify_compose.py, its seconds scaled down: one API budget, two waits.
EXTENDS ComposeSmoke
=============================================================================
