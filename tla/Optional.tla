------------------------------ MODULE Optional ------------------------------
\* The value that stands for Rust's None wherever an Option is modelled.
CONSTANT None
=============================================================================
