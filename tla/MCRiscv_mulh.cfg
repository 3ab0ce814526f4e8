\* The upper half of a product against all 128 bits of it.
SPECIFICATION Spec
CONSTANTS Float <- FloatHash Raised <- RaisedHash
INVARIANT MulHighExact
