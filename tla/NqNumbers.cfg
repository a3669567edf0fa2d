SPECIFICATION NumberSpec
CONSTANTS
  Half = 16
  Billion = 5
INVARIANTS NoUndefined WrapsExactly TimestampExact DeadlineExact
